---- MODULE Spec2Model ----
(***************************************************************************)
(* Steady-state thermal solver of honeybee_energy/construction.py.         *)
(*                                                                         *)
(* Number representation.  Python floats are modelled in fixed point:      *)
(*   - resistances       integers, unit 1e-4 m2-K/W  (0.001 is 10 units)   *)
(*   - film coefficients integers, unit 1e-2 W/m2-K                        *)
(*   - emissivities      integers, unit 1e-2                               *)
(*   - wind speed        integers, unit 1e-1 m/s                           *)
(*   - temperatures      exact rationals <<n, d>>, d > 0, lowest terms     *)
(* 1/h is 10^6 \div h in these units.                                      *)
(***************************************************************************)
EXTENDS Integers, Sequences, FiniteSets, TLC

\* ------------------------------------------------------------------ bounds
\* longest layer sequence handed to a materials setter
MaxLayers == 3
\* the ghost iteration counter saturates here (the code has no counter)
MaxIter == 6
\* longest stack of layers handed to a materials setter to meet its length cap
MaxStack == 11

\* ------------------------------------------------------- program constants
\* 0.001, the r-value tolerance of the solver loops, in 1e-4 units
Tolerance == 10
\* out_h_simple() = 23 W/m2-K, in 1e-2 units
OutHSimple == 2300
\* longest window layer sequence the setter accepts
MaxWindowLayers == 8
\* longest opaque layer sequence the setter accepts
MaxOpaqueLayers == 10

\* ---------------------------------------------------------------- numbers
\* Op(v), with v evaluated once however often Op uses its argument
Bind(v, Op(_)) == CHOOSE y \in {Op(x) : x \in {v}} : TRUE

Abs(x) == IF x < 0 THEN -x ELSE x

RECURSIVE GCD(_, _)
GCD(a, b) == IF b = 0 THEN a ELSE Bind(a % b, LAMBDA r : GCD(b, r))

\* the pair p = <<n, d>> as the rational n/d in lowest terms, d > 0
Reduced(p) ==
    LET s == IF p[2] < 0 THEN -1 ELSE 1
    IN  Bind(GCD(Abs(p[1]), Abs(p[2])),
             LAMBDA g : <<(s * p[1]) \div g, (s * p[2]) \div g>>)

Rat(n, d) == Bind(<<n, d>>, LAMBDA p : Reduced(p))

RInt(k) == <<k, 1>>
\* sums over the least common denominator, which keeps the products small
RAddPair(p) ==
    Bind(GCD(p[1][2], p[2][2]), LAMBDA g :
        Rat(p[1][1] * (p[2][2] \div g) + p[2][1] * (p[1][2] \div g),
            (p[1][2] \div g) * p[2][2]))

RAdd(a, b) == Bind(<<a, b>>, LAMBDA p : RAddPair(p))
RNeg(a) == <<-a[1], a[2]>>
RSub(a, b) == RAdd(a, RNeg(b))
RHalf(a) == Rat(a[1], 2 * a[2])
RAbs(a) == <<Abs(a[1]), a[2]>>
RLess(a, b) == a[1] * b[2] < b[1] * a[2]
RFloor(a) == a[1] \div a[2]
\* 273.15
Kelvin0 == Rat(27315, 100)
\* 1/h [1e-4 m2-K/W] of a coefficient h [1e-2 W/m2-K]
Recip(h) == (1000 * 1000) \div h

RECURSIVE Pow(_, _)
Pow(x, k) == IF k = 0 THEN 1 ELSE x * Pow(x, k - 1)

RECURSIVE RootSearch(_, _, _, _)
RootSearch(n, k, lo, hi) ==
    IF lo >= hi THEN lo
    ELSE Bind((lo + hi + 1) \div 2, LAMBDA mid :
             IF Pow(mid, k) <= n THEN RootSearch(n, k, mid, hi)
             ELSE Bind(mid - 1, LAMBDA below : RootSearch(n, k, lo, below)))

\* n ** (1/k) rounded down, for 0 <= n < 2^31 and k in 3..5
IRoot(n, k) ==
    Bind(n, LAMBDA v :
        RootSearch(v, k, 0, IF k = 3 THEN 1290 ELSE IF k = 4 THEN 215 ELSE 73))

RECURSIVE SumUpTo(_, _)
SumUpTo(s, n) == IF n = 0 THEN 0 ELSE SumUpTo(s, n - 1) + s[n]

\* a sum that stops one entry short of the end of the list
SumSeqOffByOne(s) == Bind(s, LAMBDA v : SumUpTo(v, Len(v) - 1))

\* sum(s) of a Python list
SumSeq(s) == Bind(s, LAMBDA v : SumUpTo(v, Len(v)))

\* s[1:-1] of a Python list
Inner(s) == SubSeq(s, 2, Len(s) - 1)

\* -------------------------------------------------------------- materials
\* A material layer: kind, intrinsic r_value (r), emissivity / thermal
\* absorptance (e), emissivity_back (eb); for gas and shade layers the
\* convective conductance of the gap below (u_lo) and from (u_hi) a
\* temperature drop of split kelvin.
Layer(k, rv, em, emb, lo, hi, sp) ==
    [kind |-> k, r |-> rv, e |-> em, eb |-> emb, u_lo |-> lo, u_hi |-> hi, split |-> sp]

Glass == Layer("glazing", 40, 84, 84, 0, 0, 0)
LowEGlass == Layer("glazing", 40, 84, 10, 0, 0, 0)
SimpleGlazSys == Layer("simple", 1500, 0, 0, 0, 0, 0)
AirGap == Layer("gas", 0, 0, 0, 200, 260, 12)
ArgonGap == Layer("gas", 0, 0, 0, 150, 150, 0)
Shade == Layer("shade", 200, 90, 90, 300, 500, 8)
Concrete == Layer("opaque", 1000, 90, 90, 0, 0, 0)
Insulation == Layer("opaque", 25000, 70, 70, 0, 0, 0)

WindowLayers == {Glass, LowEGlass, SimpleGlazSys, AirGap, ArgonGap, Shade}
OpaqueLayers == {Concrete, Insulation}

IsGlazingBase(mat) == mat.kind \in {"glazing", "simple"}
IsGas(mat) == mat.kind = "gas"
IsShade(mat) == mat.kind = "shade"
IsWindowMaterial(mat) == mat.kind \in {"glazing", "simple", "gas", "shade"}
IsOpaqueMaterial(mat) == mat.kind = "opaque"
\* the attributes a material class defines
HasEmissivity(mat) == mat.kind \in {"glazing", "shade"}
HasEmissivityBack(mat) == mat.kind = "glazing"

\* every sequence of length 1..n over a set of layers, and the empty one
SeqsUpTo(S, n) == UNION {[1..k -> S] : k \in 0..n}

\* 4 * 5.6697e-8 * emissivity * t_kelvin ** 3   [1e-2 W/m2-K]
RadH(t_kelvin, emissivity) ==
    LET t == RFloor(t_kelvin)
    IN  ((((((t * t * t) \div 1000) * 2268) \div 100000)) * emissivity) \div 100

\* effective emissivity of two facing surfaces, 1 / (1/e1 + 1/e2 - 1)  [1e-2]
EffectiveEmissivity(e1, e2) == (100 * e1 * e2) \div (100 * (e1 + e2) - e1 * e2)

\* conductance of the gap next to a gas or shade layer  [1e-2 W/m2-K]
GapConductance(mat, delta_t, e1, e2, t_kelvin, convects) ==
    (IF convects /\ ~RLess(delta_t, RInt(mat.split)) THEN mat.u_hi ELSE mat.u_lo)
        + RadH(t_kelvin, EffectiveEmissivity(e1, e2))

\* gas.u_value(delta_t, emissivity_1, emissivity_2, t_kelvin)
u_value(mat, delta_t, e1, e2, t_kelvin) ==
    GapConductance(mat, delta_t, e1, e2, t_kelvin, TRUE)

\* gas.u_value_at_angle(delta_t, e1, e2, height, angle, t_kelvin, pressure):
\* no buoyant convection with downward heat flow through a horizontal layer
u_value_at_angle(mat, delta_t, e1, e2, height, angle, t_kelvin, pressure) ==
    GapConductance(mat, delta_t, e1, e2, t_kelvin, angle # 0)

\* shade.r_value_exterior / r_value_interior(delta_t, emissivity, ...)
r_value_exterior(mat, delta_t, e_adj, angle, t_kelvin) ==
    mat.r + Recip(GapConductance(mat, delta_t, e_adj, mat.e, t_kelvin, angle # 0))

r_value_interior(mat, delta_t, e_adj, angle, t_kelvin) ==
    mat.r + Recip(GapConductance(mat, delta_t, e_adj, mat.e, t_kelvin, angle # 0))

\* shade.r_value_between(delta_t, emissivity_1, emissivity_2, ...)
r_value_between(mat, delta_t, e1, e2, angle, t_kelvin) ==
    mat.r + Recip(GapConductance(mat, delta_t, e1, mat.e, t_kelvin, angle # 0))
          + Recip(GapConductance(mat, delta_t, mat.e, e2, t_kelvin, angle # 0))

\* --------------------------------------------------- generic air properties
\* density [g/m3], specific heat [J/kg-K], viscosity [1e-8 kg/m-s] and
\* conductivity [1e-5 W/m-K] of the generic air, at t kelvin (an integer)
density_at_temperature(t, pressure) == (((pressure \div 1000) * 3484) \div t)
specific_heat_at_temperature(t) == 1003 + (t \div 81)
viscosity_at_temperature(t) == 372 + ((494 * t) \div 100)
conductivity_at_temperature(t) == 287 + ((776 * t) \div 100)

\* math.sin(math.radians(angle)) * 1000
SinMilli(angle) ==
    CASE angle = 0 -> 0 [] angle = 15 -> 259 [] angle = 30 -> 500
      [] angle = 45 -> 707 [] angle = 60 -> 866 [] angle = 90 -> 1000
      [] angle = 91 -> 1000 [] angle = 120 -> 866 [] angle = 135 -> 707 [] angle = 150 -> 500
      [] angle = 165 -> 259 [] angle = 179 -> 17 [] angle = 180 -> 0

\* math.exp(0.72 * angle) ** (1 / 5) * 1000
ExpFifthMilli(angle) ==
    CASE angle = 15 -> 8671 [] angle = 30 -> 75189 [] angle = 45 -> 651971
      [] angle = 60 -> 5653330 [] angle = 90 -> 425066115

\* ------------------------------------------------------- film coefficients
\* _ConstructionBase.in_h_simple  [1e-2 W/m2-K]
in_h_simple(inside_emissivity) == 360 + ((440 * inside_emissivity) \div 84)

\* _ConstructionBase.out_h  [1e-2 W/m2-K]
out_h(outside_emissivity, wind_speed, t_kelvin) ==
    LET _conv_h == 400 + (40 * wind_speed)
        _rad_h == RadH(t_kelvin, outside_emissivity)
    IN  _conv_h + _rad_h

\* _rayleigh_h of in_h, in thousands
Rayleigh(t_kelvin, delta_t, height, pressure) ==
    LET t == RFloor(t_kelvin)
        rho == density_at_temperature(t, pressure)
        dtc == (100 * Abs(delta_t[1])) \div delta_t[2]
        rho2 == (rho * rho) \div 1000
        g_h3 == (rho2 * height * height * height * 981) \div 100
        num == ((g_h3 * specific_heat_at_temperature(t)) \div 1000) * dtc
        den == t * viscosity_at_temperature(t) * conductivity_at_temperature(t)
    IN  (num \div (den \div (1000 * 1000))) * 100

\* (ra * sin) ** (1/4) * 1000 for ra in thousands and sin in thousandths
Root4RaSin(ra, sin_a) == 5623 * IRoot(((ra \div 100) * sin_a) \div 10, 4)

\* a branch test that sends 15 degrees to the first correlation
NusseltBranchFifteenUp(angle) ==
    IF angle <= 15 THEN "up"
    ELSE IF angle <= 90 THEN "critical"
    ELSE IF angle <= 179 THEN "inclined"
    ELSE "down"

\* a branch test without the first correlation
NusseltBranchNoUp(angle) ==
    IF angle <= 90 THEN "critical"
    ELSE IF angle <= 179 THEN "inclined"
    ELSE "down"

\* which correlation in_h takes for an angle
NusseltBranch(angle) ==
    IF angle < 15 THEN "up"
    ELSE IF angle <= 90 THEN "critical"
    ELSE IF angle <= 179 THEN "inclined"
    ELSE "down"

\* _rayleigh_c of in_h, in thousands
RayleighC(angle) ==
    250 * (((ExpFifthMilli(angle) \div IRoot(SinMilli(angle) * 1000 * 1000, 5)) * 63)
               \div 1000)

\* nusselt of in_h, in thousandths
Nusselt(ra, angle) ==
    IF NusseltBranch(angle) = "up" THEN 1300 * IRoot(ra, 3)
    ELSE IF NusseltBranch(angle) = "critical" THEN
        IF ra < RayleighC(angle) THEN (56 * Root4RaSin(ra, SinMilli(angle))) \div 100
        ELSE ((56 * Root4RaSin(RayleighC(angle), SinMilli(angle))) \div 100)
             + 1300 * (IRoot(ra, 3) - IRoot(RayleighC(angle), 3))
    ELSE IF NusseltBranch(angle) = "inclined"
    THEN (56 * Root4RaSin(ra, SinMilli(angle))) \div 100
    ELSE 2309 * IRoot(ra, 5)

\* the error an in_h call raises: the only division by _sin_a is the one of
\* _rayleigh_c, in the branch 15 <= angle <= 90
in_h_raises(angle) ==
    IF NusseltBranch(angle) = "critical" /\ SinMilli(angle) = 0
    THEN "ZeroDivisionError" ELSE "none"

\* _ConstructionBase.in_h  [1e-2 W/m2-K]
in_h(inside_emissivity, t_kelvin, delta_t, height, angle, pressure) ==
    LET nusselt == Bind(Rayleigh(t_kelvin, delta_t, height, pressure),
                        LAMBDA _rayleigh_h : Nusselt(_rayleigh_h, angle))
        _conv_h == ((nusselt * conductivity_at_temperature(RFloor(t_kelvin)))
                        \div (1000 * 1000)) \div height
        _rad_h == RadH(t_kelvin, inside_emissivity)
    IN  _conv_h + _rad_h

\* ------------------------------------------------------ materials setters
\* a loop body that does not count the shades
WindowSetterBodyManyShades(p, mats, n) ==
         LET mat == mats[n]
             i == n - 1
             fail(msg) == [p EXCEPT !.err = msg]
         IN  IF p.err # "ok" THEN p
             ELSE IF ~IsWindowMaterial(mat) THEN fail("Expected window energy material")
             ELSE IF mat.kind = "simple" THEN
                 IF Len(mats) = 1 THEN p ELSE fail("Only one material layer is allowed")
             ELSE IF IsGas(mat) THEN
                 IF p.glazing_layer THEN [p EXCEPT !.glazing_layer = FALSE]
                 ELSE fail("Gas layer must be adjacent to a glazing layer")
             ELSE IF IsGlazingBase(mat) THEN
                 IF ~p.glazing_layer THEN [p EXCEPT !.glazing_layer = TRUE]
                 ELSE fail("Two adjacent glazing layers are not allowed")
             ELSE IF i # 0 /\ ~p.glazing_layer
                 THEN fail("Shade layer must be adjacent to a glazing layer")
             ELSE [p EXCEPT !.glazing_layer = FALSE, !.has_shade = TRUE]

\* the loop of the WindowConstruction.materials setter after n layers: the
\* assertion that failed ("ok" when none did), glazing_layer and has_shade
WindowSetterBody(p, mats, n) ==
         LET mat == mats[n]
             i == n - 1
             fail(msg) == [p EXCEPT !.err = msg]
         IN  IF p.err # "ok" THEN p
             ELSE IF ~IsWindowMaterial(mat) THEN fail("Expected window energy material")
             ELSE IF mat.kind = "simple" THEN
                 IF Len(mats) = 1 THEN p ELSE fail("Only one material layer is allowed")
             ELSE IF IsGas(mat) THEN
                 IF p.glazing_layer THEN [p EXCEPT !.glazing_layer = FALSE]
                 ELSE fail("Gas layer must be adjacent to a glazing layer")
             ELSE IF IsGlazingBase(mat) THEN
                 IF ~p.glazing_layer THEN [p EXCEPT !.glazing_layer = TRUE]
                 ELSE fail("Two adjacent glazing layers are not allowed")
             ELSE IF i # 0 /\ ~p.glazing_layer
                 THEN fail("Shade layer must be adjacent to a glazing layer")
             ELSE IF p.has_shade THEN fail("Constructions can only possess one shade")
             ELSE [p EXCEPT !.glazing_layer = FALSE, !.has_shade = TRUE]

RECURSIVE WindowSetterLoop(_, _)
WindowSetterLoop(mats, n) ==
    IF n = 0 THEN [err |-> "ok", glazing_layer |-> FALSE, has_shade |-> FALSE]
    ELSE Bind(WindowSetterLoop(mats, n - 1), LAMBDA p : WindowSetterBody(p, mats, n))

\* a setter that does not look at the inside layer before its loop
WindowSetErrorNoInsideTest(mats) ==
    IF ~(Len(mats) > 0) THEN "Construction must possess at least one material"
    ELSE IF ~(Len(mats) <= MaxWindowLayers) THEN "cannot have more than 8 materials"
    ELSE IF IsGas(mats[1]) THEN "cannot have gas gap layers on the outside layer"
    ELSE WindowSetterLoop(mats, Len(mats)).err

\* WindowConstruction.materials setter: the assertion that fails, or "ok"
WindowSetError(mats) ==
    IF ~(Len(mats) > 0) THEN "Construction must possess at least one material"
    ELSE IF ~(Len(mats) <= MaxWindowLayers) THEN "cannot have more than 8 materials"
    ELSE IF IsGas(mats[1]) THEN "cannot have gas gap layers on the outside layer"
    ELSE IF IsGas(mats[Len(mats)]) THEN "cannot have gas gap layers on the inside layer"
    ELSE WindowSetterLoop(mats, Len(mats)).err

WindowAccepts(mats) == WindowSetError(mats) = "ok"

\* an opaque setter without the cap on the number of layers
OpaqueSetErrorNoCap(mats) ==
    IF \E n \in 1..Len(mats) : ~IsOpaqueMaterial(mats[n])
    THEN "Expected opaque energy material"
    ELSE IF ~(Len(mats) > 0) THEN "Construction must possess at least one material"
    ELSE "ok"

\* OpaqueConstruction.materials setter: the assertion that fails, or "ok"
OpaqueSetError(mats) ==
    IF \E n \in 1..Len(mats) : ~IsOpaqueMaterial(mats[n])
    THEN "Expected opaque energy material"
    ELSE IF ~(Len(mats) > 0) THEN "Construction must possess at least one material"
    ELSE IF ~(Len(mats) <= MaxOpaqueLayers) THEN "cannot have more than 10 materials"
    ELSE "ok"

OpaqueAccepts(mats) == OpaqueSetError(mats) = "ok"

\* ------------------------------------------------- construction properties
\* WindowConstruction.gap_count: count after the first n layers
RECURSIVE GapCountUpTo(_, _)
GapCountUpTo(mats, n) ==
    IF n = 0 THEN 0
    ELSE LET i == n - 1
         IN  Bind(GapCountUpTo(mats, n - 1), LAMBDA count :
                 IF IsGas(mats[n]) THEN count + 1
                 ELSE IF IsShade(mats[n]) THEN
                     IF i = 0 \/ count = Len(mats) - 1 THEN count + 1 ELSE count + 2
                 ELSE count)

\* a gap_count that counts the gas layers only
gap_countGasOnly(mats) == Cardinality({n \in 1..Len(mats) : IsGas(mats[n])})

gap_count(mats) == GapCountUpTo(mats, Len(mats))

\* a shade_location that looks at the inside layer first
shade_locationInsideFirst(mats, hs) ==
    IF IsShade(mats[Len(mats)]) THEN "Interior"
    ELSE IF IsShade(mats[1]) THEN "Exterior"
    ELSE IF hs THEN "Between"
    ELSE "None"

\* WindowConstruction.shade_location, hs being self.has_shade
shade_location(mats, hs) ==
    IF IsShade(mats[1]) THEN "Exterior"
    ELSE IF IsShade(mats[Len(mats)]) THEN "Interior"
    ELSE IF hs THEN "Between"
    ELSE "None"

\* inside_emissivity / outside_emissivity of window and opaque constructions
inside_emissivity(ct, mats) ==
    IF ct = "opaque" THEN mats[Len(mats)].e
    ELSE IF mats[1].kind = "simple" THEN 84
    ELSE IF HasEmissivityBack(mats[Len(mats)]) THEN mats[Len(mats)].eb
    ELSE mats[Len(mats)].e

outside_emissivity(ct, mats) ==
    IF ct = "opaque" THEN mats[1].e
    ELSE IF mats[1].kind = "simple" THEN 84
    ELSE mats[1].e

\* -------------------------------------------- temperature profile builder
\* the loop of _temperature_profile_from_r_values after n resistances
RECURSIVE TemperaturesUpTo(_, _, _, _)
TemperaturesUpTo(r_values, outside_temperature, inside_temperature, n) ==
    IF n = 0 THEN <<RInt(outside_temperature)>>
    ELSE LET r_factor == SumSeq(r_values)
             delta_t == inside_temperature - outside_temperature
         IN  Bind(TemperaturesUpTo(r_values, outside_temperature, inside_temperature,
                                   n - 1),
                  LAMBDA temperatures :
                      Append(temperatures,
                             RAdd(temperatures[n], Rat(delta_t * r_values[n], r_factor))))

\* a builder that leaves the last resistance out of the accumulation
ProfileMissingLastLayer(r_values, outside_temperature, inside_temperature) ==
    Bind(r_values, LAMBDA r :
        TemperaturesUpTo(r, outside_temperature, inside_temperature, Len(r) - 1))

\* a builder that starts from the indoor side: the two temperatures swapped
ProfileSwappedTemperatures(r_values, outside_temperature, inside_temperature) ==
    Bind(r_values, LAMBDA r :
        TemperaturesUpTo(r, inside_temperature, outside_temperature, Len(r)))

\* _ConstructionBase._temperature_profile_from_r_values
_temperature_profile_from_r_values(r_values, outside_temperature, inside_temperature) ==
    Bind(r_values, LAMBDA r :
        TemperaturesUpTo(r, outside_temperature, inside_temperature, Len(r)))

\* ------------------------------------------------ layered resistance solver
\* self.materials[j] of Python for j in -1..len: a negative index wraps
PyIndex(mats, j) == IF j < 0 THEN Len(mats) + j + 1 ELSE j + 1
\* the read self.materials[j].emissivity (or .emissivity_back) raises nothing
CanRead(mats, j, back) ==
    /\ PyIndex(mats, j) \in 1..Len(mats)
    /\ IF back THEN HasEmissivityBack(mats[PyIndex(mats, j)])
       ELSE HasEmissivity(mats[PyIndex(mats, j)])

\* the loop of _layered_r_value_initial after n layers: the r_vals and emiss
\* lists, and ok = no IndexError or AttributeError was raised
\* one pass of the loop body of _layered_r_value_initial, on layer n
InitialBody(p, mats, n, delta_t, avg_t_guess) ==
         LET mat == mats[n]
             i == n - 1
             next == mats[PyIndex(mats, i + 1)]
             prev == mats[PyIndex(mats, i - 1)]
             fail == [p EXCEPT !.ok = FALSE]
         IN  IF ~p.ok THEN p
             ELSE IF IsGlazingBase(mat) THEN
                 [p EXCEPT !.r_vals = Append(@, mat.r), !.emiss = Append(@, <<>>)]
             ELSE IF IsGas(mat) THEN
                 IF ~CanRead(mats, i + 1, FALSE) THEN fail
                 ELSE IF ~(CanRead(mats, i - 1, TRUE) \/ CanRead(mats, i - 1, FALSE))
                 THEN fail
                 ELSE LET e_front == next.e
                          e_back == IF HasEmissivityBack(prev) THEN prev.eb ELSE prev.e
                      IN  [p EXCEPT
                             !.r_vals = Append(@, Recip(u_value(
                                 mat, delta_t, e_back, e_front, avg_t_guess))),
                             !.emiss = Append(@, <<e_back, e_front>>)]
             ELSE IF i = 0 THEN
                 IF ~CanRead(mats, i + 1, FALSE) THEN fail
                 ELSE [p EXCEPT
                         !.r_vals = Append(@, r_value_exterior(
                             mat, delta_t, next.e, 90, avg_t_guess)),
                         !.emiss = Append(@, <<next.e>>)]
             ELSE IF i = Len(mats) - 1 THEN
                 IF ~CanRead(mats, i - 1, TRUE) THEN fail
                 ELSE [p EXCEPT
                         !.r_vals = Append(@, r_value_interior(
                             mat, delta_t, prev.eb, 90, avg_t_guess)),
                         !.emiss = Append(@, <<prev.eb>>)]
             ELSE
                 IF ~CanRead(mats, i + 1, FALSE) \/ ~CanRead(mats, i - 1, TRUE) THEN fail
                 ELSE [p EXCEPT
                         !.r_vals = Append(@, r_value_between(
                             mat, delta_t, next.e, prev.eb, 90, avg_t_guess)),
                         !.emiss = Append(@, <<next.e, prev.eb>>)]

RECURSIVE InitialLoop(_, _, _, _, _)
InitialLoop(mats, n, out_r, delta_t, avg_t_guess) ==
    IF n = 0 THEN [ok |-> TRUE, r_vals |-> <<out_r>>, emiss |-> <<>>]
    ELSE Bind(InitialLoop(mats, n - 1, out_r, delta_t, avg_t_guess),
              LAMBDA p : InitialBody(p, mats, n, delta_t, avg_t_guess))

\* a seed that gives every gap the whole guessed temperature drop
_layered_r_value_initialUndivided(mats, gaps, delta_t_guess, avg_t_guess, wind_speed) ==
    LET out_r == Recip(out_h(outside_emissivity("window", mats), wind_speed,
                             RSub(avg_t_guess, delta_t_guess)))
    IN  Bind(InitialLoop(mats, Len(mats), out_r, delta_t_guess, avg_t_guess),
             LAMBDA p :
                 IF ~p.ok THEN p
                 ELSE [p EXCEPT !.r_vals =
                     Append(@, Recip(in_h_simple(inside_emissivity("window", mats))))])

\* WindowConstruction._layered_r_value_initial
_layered_r_value_initial(mats, gaps, delta_t_guess, avg_t_guess, wind_speed) ==
    LET out_r == Recip(out_h(outside_emissivity("window", mats), wind_speed,
                             RSub(avg_t_guess, delta_t_guess)))
        delta_t == Rat(delta_t_guess[1], delta_t_guess[2] * gaps)
    IN  Bind(InitialLoop(mats, Len(mats), out_r, delta_t, avg_t_guess),
             LAMBDA p :
                 IF ~p.ok THEN p
                 ELSE [p EXCEPT !.r_vals =
                     Append(@, Recip(in_h_simple(inside_emissivity("window", mats))))])

\* the loop of _layered_r_value after n layers
RECURSIVE LayeredLoop(_, _, _, _, _, _, _, _)
LayeredLoop(mats, n, temperatures, r_values_init, emiss, height, angle, pressure) ==
    IF n = 0 THEN <<r_values_init[1]>>
    ELSE LET r_vals == LayeredLoop(mats, n - 1, temperatures, r_values_init, emiss,
                                   height, angle, pressure)
             mat == mats[n]
             i == n - 1
             delta_t == RAbs(RSub(temperatures[i + 2], temperatures[i + 3]))
             avg_temp == RAdd(RHalf(RAdd(temperatures[i + 2], temperatures[i + 3])),
                              Kelvin0)
         IN  IF IsGlazingBase(mat) THEN Append(r_vals, r_values_init[i + 2])
             ELSE IF IsGas(mat) THEN
                 Append(r_vals, Recip(u_value_at_angle(
                     mat, delta_t, emiss[n][1], emiss[n][2], height, angle,
                     avg_temp, pressure)))
             ELSE IF i = 0 THEN
                 Append(r_vals, r_value_exterior(mat, delta_t, emiss[n][1], angle, avg_temp))
             ELSE IF i = Len(mats) - 1 THEN
                 Append(r_vals, r_value_interior(mat, delta_t, emiss[n][1], angle, avg_temp))
             ELSE
                 Append(r_vals, r_value_between(
                     mat, delta_t, emiss[n][1], emiss[n][2], angle, avg_temp))

\* the arguments of the in_h call that ends _layered_r_value
LayeredInH(temperatures, height, angle, pressure) ==
    LET k == Len(temperatures)
    IN  [t_kelvin |-> RAdd(RHalf(RAdd(temperatures[k], temperatures[k - 1])), Kelvin0),
         delta_t |-> RAbs(RSub(temperatures[k], temperatures[k - 1])),
         height |-> height, angle |-> angle, pressure |-> pressure]

\* a refinement step that never appends the indoor film
LayeredNoIndoorFilm(mats, temperatures, r_values_init, emiss, height, angle, pressure) ==
    LayeredLoop(mats, Len(mats), temperatures, r_values_init, emiss, height, angle,
                pressure)

\* a refinement step that keeps the gap resistances of the previous vector
_layered_r_valueKeepsGaps(mats, temperatures, r_values_init, emiss, height, angle, pressure) ==
    Bind(LayeredInH(temperatures, height, angle, pressure), LAMBDA c :
        Append(SubSeq(r_values_init, 1, Len(mats) + 1),
               Recip(in_h(inside_emissivity("window", mats), c.t_kelvin, c.delta_t,
                          c.height, c.angle, c.pressure))))

\* a refinement step that lets the glazing entries drift
_layered_r_valueGlazingDrifts(mats, temperatures, r_values_init, emiss, height, angle, pressure) ==
    Bind(LayeredInH(temperatures, height, angle, pressure), LAMBDA c :
    Bind(LayeredLoop(mats, Len(mats), temperatures, r_values_init, emiss,
                     height, angle, pressure), LAMBDA r :
        Append([n \in 1..Len(r) |->
                    IF n > 1 /\ IsGlazingBase(mats[n - 1]) THEN r[n] + 1 ELSE r[n]],
               Recip(in_h(inside_emissivity("window", mats), c.t_kelvin, c.delta_t,
                          c.height, c.angle, c.pressure)))))

\* WindowConstruction._layered_r_value
_layered_r_value(mats, temperatures, r_values_init, emiss, height, angle, pressure) ==
    Bind(LayeredInH(temperatures, height, angle, pressure), LAMBDA c :
        Append(LayeredLoop(mats, Len(mats), temperatures, r_values_init, emiss,
                           height, angle, pressure),
               Recip(in_h(inside_emissivity("window", mats), c.t_kelvin, c.delta_t,
                          c.height, c.angle, c.pressure))))

\* ------------------------------------------------------------------ state
VARIABLES
    ctype,          \* class of the construction: "window" or "opaque"
    materials,      \* _materials, outside to inside
    has_shade,      \* _has_shade
    set_result,     \* outcome of the last materials assignment
    set_mats,       \* the layer sequence the materials setter last ran on
    pc,             \* "idle", "solving" (inside a solver loop), "done", "error"
    call,           \* the running or last call: its name and arguments
    angle,          \* the local variable angle of temperature_profile
    r_vals,         \* r_vals / r_values of the call
    emiss,          \* emissivities recorded by the seed
    temperatures,   \* temperatures of the call
    r_last,         \* r_last of the solver loop
    r_next,         \* r_next of the solver loop
    result,         \* the value a property read returned
    prev,           \* ghost: name and value of the property read just before
    iters,          \* ghost: loop iterations of the call, saturating at MaxIter
    t_from,         \* ghost: the resistance vector temperatures was built from
    in_h_call,      \* ghost: arguments of the last in_h call of the call
    _name,          \* _name of the construction
    locked,         \* _locked of the construction
    locked_mats,    \* the material objects whose _locked is True
    film,           \* an in_h evaluation: its arguments and what it returned
    second_locked,  \* _locked of a second window construction
    ap_construction, \* _construction of an aperture's energy properties
    host,           \* the aperture: its parents, boundary condition and types
    assigned,       \* ghost: the value of the last assignment that succeeded
    dup,            \* the energy properties duplicate() returned last, if any
    got,            \* what the operation returned, if it read aperture.construction
    outcome         \* the last operation on the locks or the aperture, how it ended

\* the fields of the construction and the locals of its running call
thermal_vars == <<ctype, materials, has_shade, set_result, set_mats, pc, call, angle, r_vals,
                  emiss, temperatures, r_last, r_next, result, prev, iters, t_from,
                  in_h_call>>
\* the lock flags and name of the construction
lock_vars == <<_name, locked, locked_mats, second_locked>>
\* the aperture's energy properties and its host
aperture_vars == <<ap_construction, host, assigned, dup, got, outcome>>

vars == <<thermal_vars, lock_vars, film, aperture_vars>>

Properties == {"r_value", "u_value", "r_factor", "u_factor"}
NoValue == <<0, 0>>
NoPrev == [name |-> "none", value |-> NoValue]
NoCall == [t_kelvin |-> NoValue, delta_t |-> NoValue, height |-> 0, angle |-> 0,
           pressure |-> 0]

\* boundary conditions a caller passes to temperature_profile
OutsideTemperatures == {-18, 0, 21, 35}
InsideTemperatures == {21}
WindSpeeds == {67}
Heights == {1}
Angles == {0, 45, 90, 135, 180}
Pressures == {101325}

\* layer sequences a caller hands to the materials setter
Candidates(ct) ==
    IF ct = "window"
    THEN SeqsUpTo({Glass, AirGap, Shade}, MaxLayers)
         \cup SeqsUpTo({Glass, SimpleGlazSys, AirGap, Shade, Concrete}, MaxLayers - 1)
    ELSE SeqsUpTo({Concrete, Insulation, Glass}, MaxLayers)

\* a stack of n layers with the structure its setter asks for: glazing layers
\* separated by gas layers, behind an exterior shade when n is even; n layers
\* of concrete for an opaque construction
Stack(ct, n) ==
    IF ct = "window"
    THEN [k \in 1..n |-> IF n % 2 = 0 /\ k = 1 THEN Shade
                         ELSE IF k % 2 = n % 2 THEN Glass ELSE AirGap]
    ELSE [k \in 1..n |-> Concrete]

\* the layer sequences a materials assignment is tried with
SetterInputs(ct) == Candidates(ct) \cup {Stack(ct, n) : n \in 1..MaxStack}

\* defaults of _solve_r_values, _layered_r_value and _layered_r_value_initial
DefaultCall(name) ==
    [name |-> name, outside_temperature |-> -18, inside_temperature |-> 21,
     wind_speed |-> 67, height |-> 1, angle |-> 90, pressure |-> 101325]

\* only the outside layer of a layer sequence
LayerObjectsFirstOnly(mats) == {mats[1]}

\* the material objects of a layer sequence (an object may fill several layers)
LayerObjects(mats) == {mats[n] : n \in 1..Len(mats)}

NoFilm == [state |-> "none"]
NoHost == [has_parent |-> FALSE, parent_has_parent |-> FALSE,
           boundary_condition |-> "Outdoors", type |-> "Window", parent_type |-> "none"]
NoOutcome == [op |-> "none", on |-> "none", raised |-> "none", mats |-> {}]
NoDuplicate == [exists |-> FALSE, host_is |-> "none", new_host |-> NoHost,
                construction |-> "none"]
NoGot == [source |-> "none", boundary_condition |-> "none", type |-> "none",
          face_type |-> "none", value |-> "none"]

\* no in_h evaluation is under study
FilmIdle == film = NoFilm

\* a new aperture without parents, its construction not set; a second
\* window construction exists, unlocked
ApertureIdle ==
    /\ second_locked = FALSE
    /\ ap_construction = "none"
    /\ host = NoHost
    /\ assigned = "none"
    /\ dup = NoDuplicate
    /\ got = NoGot
    /\ outcome = NoOutcome

\* the locals of the thermal calls before any call
CallsIdle ==
    /\ set_result = "ok"
    /\ pc = "idle"
    /\ call = DefaultCall("none")
    /\ angle = 90
    /\ r_vals = <<>>
    /\ emiss = <<>>
    /\ temperatures = <<>>
    /\ r_last = 0
    /\ r_next = 0
    /\ result = NoValue
    /\ prev = NoPrev
    /\ iters = 0
    /\ t_from = <<>>
    /\ in_h_call = NoCall

\* a construction as __init__ leaves it, or as a following lock() leaves it
Init ==
    /\ ctype \in {"window", "opaque"}
    /\ materials \in SeqsUpTo(WindowLayers \cup OpaqueLayers, MaxLayers)
    /\ IF ctype = "window" THEN WindowAccepts(materials) ELSE OpaqueAccepts(materials)
    /\ has_shade = (ctype = "window"
                    /\ WindowSetterLoop(materials, Len(materials)).has_shade)
    /\ _name = "Construction"
    /\ locked \in BOOLEAN
    /\ locked_mats = IF locked THEN LayerObjects(materials) ELSE {}
    /\ set_mats = materials
    /\ CallsIdle
    /\ FilmIdle
    /\ ApertureIdle

\* construction.materials = mats
SetMaterials(mats) ==
    LET error == IF locked THEN "AttributeError"
                 ELSE IF ctype = "window" THEN WindowSetError(mats)
                 ELSE OpaqueSetError(mats)
    IN  /\ pc # "solving"
        /\ UNCHANGED <<lock_vars, film, aperture_vars>>
        /\ set_result' = error
        /\ set_mats' = IF locked THEN set_mats ELSE mats
        /\ IF error = "ok"
           THEN /\ materials' = mats
                /\ has_shade' = (ctype = "window"
                                 /\ WindowSetterLoop(mats, Len(mats)).has_shade)
           ELSE UNCHANGED <<materials, has_shade>>
        /\ UNCHANGED <<ctype, pc, call, angle, r_vals, emiss, temperatures, r_last,
                       r_next, result, prev, iters, t_from, in_h_call>>

\* ------------------------------------------------------ construction facade
RECURSIVE LayerRValues(_)
LayerRValues(mats) ==
    IF mats = <<>> THEN <<>> ELSE <<Head(mats).r>> \o LayerRValues(Tail(mats))

\* _ConstructionBase.r_value
BaseRValue(mats) == SumSeq(LayerRValues(mats))

\* _ConstructionBase.r_factor
BaseRFactor(ct, mats) ==
    LET _ext_r == Recip(OutHSimple)
        _int_r == Recip(in_h_simple(inside_emissivity(ct, mats)))
    IN  BaseRValue(mats) + _ext_r + _int_r

\* the gap_count == 0 branch of WindowConstruction.r_factor
ZeroGapRFactor(mats) ==
    mats[1].r + Recip(OutHSimple) + Recip(in_h_simple(inside_emissivity("window", mats)))

\* a dispatch that keeps a construction with one gap on the closed form
UsesSolverAboveOneGap(ct, mats) == ct = "window" /\ gap_count(mats) > 1

\* whether a call on this construction runs the iterative solver
UsesSolver(ct, mats) == ct = "window" /\ gap_count(mats) # 0

\* an r_value that strips the outdoor film only: sum(r_vals[1:])
SolvedRValueKeepsIndoorFilm(r) == SumSeq(Tail(r))

\* what r_value / r_factor return from the solved resistances
SolvedRValue(r) == SumSeq(Inner(r))
SolvedRFactor(r) == SumSeq(r)

\* a resistance [1e-4 m2-K/W] as the value a property returns, and 1 / it
AsValue(r) == RInt(r)
Inverse(r) == Rat(10 * 1000, r)

\* the value of property name when no solve is needed
ClosedForm(name, ct, mats) ==
    LET rv == IF ct = "window" THEN mats[1].r ELSE BaseRValue(mats)
        rf == IF ct = "window" THEN ZeroGapRFactor(mats) ELSE BaseRFactor(ct, mats)
    IN  CASE name = "r_value" -> AsValue(rv)
          [] name = "u_value" -> Inverse(rv)
          [] name = "r_factor" -> AsValue(rf)
          [] name = "u_factor" -> Inverse(rf)

\* the value of property name from the solved resistances
FromSolve(name, r) ==
    CASE name = "r_value" -> AsValue(SolvedRValue(r))
      [] name = "u_value" -> Inverse(SolvedRValue(r))
      [] name = "r_factor" -> AsValue(SolvedRFactor(r))
      [] name = "u_factor" -> Inverse(SolvedRFactor(r))

\* a solver start that goes on from the vector the call before left behind
EnterSolverWarmStart(seed) ==
    IF seed.ok
    THEN /\ pc' = "solving"
         /\ r_vals' = IF Len(r_vals) = Len(seed.r_vals) THEN r_vals ELSE seed.r_vals
         /\ emiss' = seed.emiss
         /\ r_last' = 0
         /\ r_next' = SumSeq(IF Len(r_vals) = Len(seed.r_vals) THEN r_vals ELSE seed.r_vals)
    ELSE /\ pc' = "error"
         /\ r_vals' = <<>>
         /\ emiss' = <<>>
         /\ r_last' = 0
         /\ r_next' = 0

\* the seed of a call enters the solver loop, or its exception ends the call
EnterSolver(seed) ==
    IF seed.ok
    THEN /\ pc' = "solving"
         /\ r_vals' = seed.r_vals
         /\ emiss' = seed.emiss
         /\ r_last' = 0
         /\ r_next' = SumSeq(seed.r_vals)
    ELSE /\ pc' = "error"
         /\ r_vals' = <<>>
         /\ emiss' = <<>>
         /\ r_last' = 0
         /\ r_next' = 0

\* reading construction.r_value, u_value, r_factor or u_factor
CallProperty(name) ==
    /\ pc # "solving"
    /\ call' = DefaultCall(name)
    /\ prev' = IF pc = "done" /\ call.name \in Properties
               THEN [name |-> call.name, value |-> result] ELSE NoPrev
    /\ angle' = 90
    /\ temperatures' = <<>>
    /\ t_from' = <<>>
    /\ in_h_call' = NoCall
    /\ iters' = 0
    /\ IF UsesSolver(ctype, materials)
       THEN /\ \E seed \in {_layered_r_value_initial(
                                materials, gap_count(materials), RInt(15), Kelvin0, 67)} :
                   EnterSolver(seed)
            /\ result' = NoValue
       ELSE /\ pc' = "done"
            /\ result' = ClosedForm(name, ctype, materials)
            /\ r_vals' = <<>>
            /\ emiss' = <<>>
            /\ r_last' = 0
            /\ r_next' = 0
    /\ UNCHANGED <<ctype, materials, has_shade, set_result, set_mats>>
    /\ UNCHANGED <<lock_vars, film, aperture_vars>>

\* a flip that looks at the angle only, never at the temperatures
FlipAngleIgnoresTemperatures(a, outside_temperature, inside_temperature) ==
    IF a # 90 THEN Abs(180 - a) ELSE a

\* a flip that tests the temperatures the wrong way round
FlipAngleReversedTest(a, outside_temperature, inside_temperature) ==
    IF a # 90 /\ outside_temperature < inside_temperature THEN Abs(180 - a) ELSE a

\* the angle temperature_profile computes with
FlipAngle(a, outside_temperature, inside_temperature) ==
    IF a # 90 /\ outside_temperature > inside_temperature THEN Abs(180 - a) ELSE a

\* the single pass of temperature_profile: opaque layers, or one glazing layer
SinglePassRValues(ct, mats, layer_rs, c, a) ==
    LET in_r_init == Recip(in_h_simple(inside_emissivity(ct, mats)))
        r_values == <<Recip(out_h(outside_emissivity(ct, mats), c.wind_speed,
                                  RAdd(RInt(c.outside_temperature), Kelvin0)))>>
                    \o layer_rs \o <<in_r_init>>
        in_delta_t == Rat(in_r_init * (c.outside_temperature - c.inside_temperature),
                          SumSeq(r_values))
        h_call == [t_kelvin |-> RAdd(RSub(RInt(c.inside_temperature), RHalf(in_delta_t)),
                                     Kelvin0),
                   delta_t |-> in_delta_t, height |-> c.height, angle |-> a,
                   pressure |-> c.pressure]
    IN  [r_values |-> [r_values EXCEPT ![Len(r_values)] =
                          Recip(in_h(inside_emissivity(ct, mats), h_call.t_kelvin,
                                     h_call.delta_t, h_call.height, h_call.angle,
                                     h_call.pressure))],
         h_call |-> h_call]

\* the seed arguments of WindowConstruction.temperature_profile
ProfileGuess(c) ==
    LET guess == Rat(Abs(c.inside_temperature - c.outside_temperature), 2)
    IN  IF RLess(guess, RInt(1)) THEN RInt(1) ELSE guess

ProfileAvgGuess(c) ==
    RAdd(Rat(c.inside_temperature + c.outside_temperature, 2), Kelvin0)

\* construction.temperature_profile(outside_temperature, inside_temperature,
\*                                  wind_speed, height, angle, pressure)
CallTemperatureProfile(c) ==
    LET a == FlipAngle(c.angle, c.outside_temperature, c.inside_temperature)
        layer_rs == IF ctype = "window" THEN <<materials[1].r>>
                    ELSE LayerRValues(materials)
    IN  /\ pc # "solving"
        /\ call' = c
        /\ prev' = NoPrev
        /\ result' = NoValue
        /\ angle' = a
        /\ iters' = 0
        /\ IF UsesSolver(ctype, materials)
           THEN /\ \E seed \in {_layered_r_value_initial(
                                    materials, gap_count(materials), ProfileGuess(c),
                                    ProfileAvgGuess(c), c.wind_speed)} :
                       EnterSolver(seed)
                /\ temperatures' = <<>>
                /\ t_from' = <<>>
                /\ in_h_call' = NoCall
           ELSE \E single \in {SinglePassRValues(ctype, materials, layer_rs, c, a)} :
                /\ pc' = "done"
                /\ r_vals' = single.r_values
                /\ emiss' = <<>>
                /\ r_last' = 0
                /\ r_next' = 0
                /\ temperatures' = _temperature_profile_from_r_values(
                       single.r_values, c.outside_temperature, c.inside_temperature)
                /\ t_from' = single.r_values
                /\ in_h_call' = single.h_call
        /\ UNCHANGED <<ctype, materials, has_shade, set_result, set_mats>>
        /\ UNCHANGED <<lock_vars, film, aperture_vars>>

\* a loop test with ten times the tolerance
NotConvergedLoose == Abs(r_next - r_last) > 10 * Tolerance

\* a loop test without abs(): a falling sum ends the loop at once
NotConvergedNoAbs == r_next - r_last > Tolerance

\* the test of the while loops of _solve_r_values and temperature_profile
NotConverged == Abs(r_next - r_last) > Tolerance

\* one pass through the body of the while loop
SolveStep ==
    /\ pc = "solving"
    /\ NotConverged
    /\ \E t \in {_temperature_profile_from_r_values(
                    r_vals, call.outside_temperature, call.inside_temperature)} :
       \E r \in {_layered_r_value(materials, t, r_vals, emiss, call.height, angle,
                                  call.pressure)} :
           /\ r_last' = SumSeq(r_vals)
           /\ temperatures' = t
           /\ t_from' = r_vals
           /\ r_vals' = r
           /\ r_next' = SumSeq(r)
           /\ in_h_call' = LayeredInH(t, call.height, angle, call.pressure)
    /\ iters' = IF iters < MaxIter THEN iters + 1 ELSE iters
    /\ UNCHANGED <<ctype, materials, has_shade, set_result, set_mats, pc, call, angle, emiss,
                   result, prev>>
    /\ UNCHANGED <<lock_vars, film, aperture_vars>>

\* the while loop ends and the call returns
SolveReturn ==
    /\ pc = "solving"
    /\ ~NotConverged
    /\ pc' = "done"
    /\ IF call.name = "temperature_profile"
       THEN /\ temperatures' = _temperature_profile_from_r_values(
                   r_vals, call.outside_temperature, call.inside_temperature)
            /\ t_from' = r_vals
            /\ UNCHANGED result
       ELSE /\ result' = FromSolve(call.name, r_vals)
            /\ UNCHANGED <<temperatures, t_from>>
    /\ UNCHANGED <<ctype, materials, has_shade, set_result, set_mats, call, angle, r_vals, emiss,
                   r_last, r_next, prev, iters, in_h_call>>
    /\ UNCHANGED <<lock_vars, film, aperture_vars>>

ProfileCalls ==
    [name : {"temperature_profile"}, outside_temperature : OutsideTemperatures,
     inside_temperature : InsideTemperatures, wind_speed : WindSpeeds,
     height : Heights, angle : Angles, pressure : Pressures]

\* the thermal calls on a construction whose materials stay as constructed
Next ==
    \/ \E name \in Properties : CallProperty(name)
    \/ \E c \in ProfileCalls : CallTemperatureProfile(c)
    \/ SolveStep
    \/ SolveReturn

Spec == Init /\ [][Next]_vars

\* the interpreter runs a started loop on: it neither pauses nor is preempted
FairSpec == Spec /\ WF_vars(SolveStep) /\ WF_vars(SolveReturn)

\* assignments of layer sequences to the materials of a construction
SetterNext == \E mats \in SetterInputs(ctype) : SetMaterials(mats)

SetterSpec == Init /\ [][SetterNext]_vars

\* ------------------------------------------------------------ in_h on its own
FilmAngles == {0, 14, 15, 30, 45, 60, 90, 91, 120, 135, 150, 165, 179, 180}
FilmDeltas == {RInt(0), RInt(15), RInt(-5)}
FilmKelvins == {Rat(29315, 100)}

\* construction.in_h(t_kelvin, delta_t, height, angle, pressure)
CallInH(t_kelvin, delta_t, height, a, pressure) ==
    /\ \E ra \in {Rayleigh(t_kelvin, delta_t, height, pressure)} :
           film' = [state |-> IF in_h_raises(a) = "none" THEN "returned" ELSE "raised",
                    raised |-> in_h_raises(a),
                    t_kelvin |-> t_kelvin, delta_t |-> delta_t, height |-> height,
                    angle |-> a, pressure |-> pressure,
                    rayleigh |-> ra, branch |-> NusseltBranch(a),
                    nusselt |-> IF in_h_raises(a) = "none" THEN Nusselt(ra, a) ELSE 0,
                    h |-> IF in_h_raises(a) = "none"
                          THEN in_h(inside_emissivity(ctype, materials), t_kelvin,
                                    delta_t, height, a, pressure)
                          ELSE 0]
    /\ UNCHANGED <<thermal_vars, lock_vars, aperture_vars>>

FilmNext ==
    \E t \in FilmKelvins, d \in FilmDeltas, h \in Heights, a \in FilmAngles,
       p \in Pressures : CallInH(t, d, h, a, p)

FilmSpec == Init /\ [][FilmNext]_vars

\* ------------------------------------------------ locks and the aperture
\* the layers of the second window construction; it shares its glazing
\* object with the constructions built from Glass
SecondLayers == <<Glass, ArgonGap, Glass>>
LayersOf(c) == IF c = "self" THEN materials ELSE SecondLayers
MaterialObjects == LayerObjects(materials) \cup LayerObjects(SecondLayers)

\* the values assigned to aperture.properties.energy.construction: None, the
\* construction, the second window construction, a string
Values == {"none", "self", "second", "text"}
IsWindowConstruction(v) == v = "second" \/ (v = "self" /\ ctype = "window")

\* the places an aperture can be in: alone, on a wall, on a roof, on a wall
\* of a room next to another room, alone and adjacent to another aperture
Hosts ==
    {NoHost,
     [NoHost EXCEPT !.has_parent = TRUE, !.parent_type = "Wall"],
     [NoHost EXCEPT !.has_parent = TRUE, !.parent_type = "RoofCeiling"],
     [NoHost EXCEPT !.has_parent = TRUE, !.parent_has_parent = TRUE,
                    !.parent_type = "Wall", !.boundary_condition = "Surface"],
     [NoHost EXCEPT !.boundary_condition = "Surface"]}

\* the places of a new aperture handed to duplicate(): it has no parent
NewHosts == {h \in Hosts : ~h.has_parent}

\* the assignments of _ConstructionBase.lock() on construction c
DoLock(c) ==
    /\ locked' = IF c = "self" THEN TRUE ELSE locked
    /\ second_locked' = IF c = "second" THEN TRUE ELSE second_locked
    /\ locked_mats' = locked_mats \cup LayerObjects(LayersOf(c))

\* c.lock()
Lock(c) ==
    /\ DoLock(c)
    /\ outcome' = [op |-> "lock", on |-> c, raised |-> "none",
                   mats |-> LayerObjects(LayersOf(c))]
    /\ got' = NoGot
    /\ UNCHANGED <<_name, ap_construction, host, assigned, dup, thermal_vars, film>>

\* c.unlock()
Unlock(c) ==
    /\ locked' = IF c = "self" THEN FALSE ELSE locked
    /\ second_locked' = IF c = "second" THEN FALSE ELSE second_locked
    /\ locked_mats' = locked_mats \ LayerObjects(LayersOf(c))
    /\ outcome' = [op |-> "unlock", on |-> c, raised |-> "none",
                   mats |-> LayerObjects(LayersOf(c))]
    /\ got' = NoGot
    /\ UNCHANGED <<_name, ap_construction, host, assigned, dup, thermal_vars, film>>

\* setting an attribute of the material object m, one the thermal
\* properties do not depend on
SetMaterialAttribute(m) ==
    /\ outcome' = [op |-> "setattr", on |-> "material",
                   raised |-> IF m \in locked_mats THEN "AttributeError" ELSE "none",
                   mats |-> {m}]
    /\ got' = NoGot
    /\ UNCHANGED <<lock_vars, ap_construction, host, assigned, dup, thermal_vars, film>>

\* construction.name = n
SetName(n) ==
    /\ _name' = IF locked THEN _name ELSE n
    /\ outcome' = [op |-> "setattr", on |-> "self",
                   raised |-> IF locked THEN "AttributeError" ELSE "none", mats |-> {}]
    /\ got' = NoGot
    /\ UNCHANGED <<locked, locked_mats, second_locked, ap_construction, host, assigned, dup,
                   thermal_vars, film>>

\* an assignment that never asserts the class of the value
AssignErrorNoAssert(v) == "none"

\* the assertion of the aperture's construction setter
AssignError(v) ==
    IF v # "none" /\ ~IsWindowConstruction(v) THEN "AssertionError" ELSE "none"

\* aperture.properties.energy.construction = v
AssignConstruction(v) ==
    /\ IF AssignError(v) # "none"
       THEN UNCHANGED <<locked, locked_mats, second_locked, ap_construction, assigned>>
       ELSE /\ IF v \in {"self", "second"} THEN DoLock(v)
               ELSE UNCHANGED <<locked, locked_mats, second_locked>>
            /\ ap_construction' = v
            /\ assigned' = v
    /\ outcome' = [op |-> "assign", on |-> v, raised |-> AssignError(v),
                   mats |-> IF AssignError(v) = "none" /\ v \in {"self", "second"}
                            THEN LayerObjects(LayersOf(v)) ELSE {}]
    /\ got' = NoGot
    /\ UNCHANGED <<_name, host, dup, thermal_vars, film>>

\* a getter that asks the room before it looks at the user's construction
constructionRoomFirst(apc, h) ==
    IF h.has_parent /\ h.parent_has_parent
    THEN [NoGot EXCEPT !.source = "room_set", !.value = "from_set",
                       !.boundary_condition = h.boundary_condition,
                       !.type = h.type, !.face_type = h.parent_type]
    ELSE IF apc # "none" THEN [NoGot EXCEPT !.source = "user", !.value = apc]
    ELSE [NoGot EXCEPT !.source = "generic_set", !.value = "from_set",
                       !.boundary_condition = h.boundary_condition, !.type = h.type,
                       !.face_type = IF h.has_parent THEN h.parent_type ELSE "Wall"]

\* ApertureEnergyProperties.construction (getter): where the construction
\* comes from, the arguments of get_aperture_construction, and the object
construction(apc, h) ==
    IF apc # "none" /\ Len(LayersOf(apc)) > 0
    THEN [NoGot EXCEPT !.source = "user", !.value = apc]
    ELSE IF h.has_parent /\ h.parent_has_parent
    THEN [NoGot EXCEPT !.source = "room_set", !.value = "from_set",
                       !.boundary_condition = h.boundary_condition,
                       !.type = h.type, !.face_type = h.parent_type]
    ELSE IF h.has_parent
    THEN [NoGot EXCEPT !.source = "generic_set", !.value = "from_set",
                       !.boundary_condition = h.boundary_condition,
                       !.type = h.type, !.face_type = h.parent_type]
    ELSE [NoGot EXCEPT !.source = "generic_set", !.value = "from_set",
                       !.boundary_condition = h.boundary_condition,
                       !.type = h.type, !.face_type = "Wall"]

\* ApertureEnergyProperties.is_construction_set_by_user
is_construction_set_by_user == ap_construction # "none"

\* reading aperture.properties.energy.construction
GetConstruction ==
    /\ got' = construction(ap_construction, host)
    /\ outcome' = [op |-> "get", on |-> "aperture", raised |-> "none", mats |-> {}]
    /\ UNCHANGED <<lock_vars, ap_construction, host, assigned, dup, thermal_vars, film>>

\* the aperture is put on a face, the face into a room, or taken out
MoveAperture(h) ==
    /\ h # host
    /\ host' = h
    /\ outcome' = [op |-> "move", on |-> "aperture", raised |-> "none", mats |-> {}]
    /\ got' = NoGot
    /\ UNCHANGED <<lock_vars, ap_construction, assigned, dup, thermal_vars, film>>

\* a copy that forgets the construction
duplicateWithoutConstruction(apc, given, new_host) ==
    [exists |-> TRUE, host_is |-> IF given THEN "new_host" ELSE "original",
     new_host |-> new_host, construction |-> "none"]

\* ApertureEnergyProperties.duplicate(new_host): the object it returns; given
\* is the truth value of new_host
duplicate(apc, given, new_host) ==
    [exists |-> TRUE, host_is |-> IF given THEN "new_host" ELSE "original",
     new_host |-> new_host, construction |-> apc]

\* the aperture hosting the duplicate, where it is
DuplicateHost == IF dup.host_is = "original" THEN host ELSE dup.new_host

\* the construction the generic construction set gives an aperture
GenericConstruction(boundary_condition) ==
    IF boundary_condition = "Surface" THEN "Generic Single Pane Window"
    ELSE "Generic Double Pane Window"

\* the object a read of the getter returned: the user's construction, the
\* generic set's, or the one the room's construction set holds
Returned(g) ==
    IF g.source = "generic_set" THEN GenericConstruction(g.boundary_condition)
    ELSE IF g.source = "room_set" THEN "construction of the room's set"
    ELSE g.value

\* aperture.properties.energy.duplicate(new_host); __init__ of the copy
\* assigns the construction through the setter, which locks it
Duplicate(given, new_host) ==
    /\ dup' = duplicate(ap_construction, given, IF given THEN new_host ELSE NoHost)
    /\ IF dup'.construction \in {"self", "second"} THEN DoLock(dup'.construction)
       ELSE UNCHANGED <<locked, locked_mats, second_locked>>
    /\ outcome' = [op |-> "duplicate", on |-> ap_construction, raised |-> "none",
                   mats |-> {}]
    /\ got' = NoGot
    /\ UNCHANGED <<_name, ap_construction, host, assigned, thermal_vars, film>>

\* duplicate.construction = v
AssignOnDuplicate(v) ==
    /\ dup.exists
    /\ IF AssignError(v) # "none"
       THEN UNCHANGED <<locked, locked_mats, second_locked, dup>>
       ELSE /\ IF v \in {"self", "second"} THEN DoLock(v)
               ELSE UNCHANGED <<locked, locked_mats, second_locked>>
            /\ dup' = [dup EXCEPT !.construction = v]
    /\ outcome' = [op |-> "assign_duplicate", on |-> v, raised |-> AssignError(v),
                   mats |-> {}]
    /\ got' = NoGot
    /\ UNCHANGED <<_name, ap_construction, host, assigned, thermal_vars, film>>

ApertureNext ==
    \/ \E c \in {"self", "second"} : Lock(c) \/ Unlock(c)
    \/ \E m \in MaterialObjects : SetMaterialAttribute(m)
    \/ SetName("Renamed")
    \/ \E v \in Values : AssignConstruction(v)
    \/ GetConstruction
    \/ \E h \in Hosts : MoveAperture(h)
    \/ \E given \in BOOLEAN, h \in NewHosts : Duplicate(given, h)
    \/ \E v \in Values : AssignOnDuplicate(v)

\* a single pane, a double pane with a low-e pane, or a concrete wall, and a
\* new aperture
ApertureInit ==
    /\ Init
    /\ materials \in {<<Glass>>, <<LowEGlass, AirGap, Glass>>, <<Concrete>>}

ApertureSpec == ApertureInit /\ [][ApertureNext]_vars

\* --------------------------------------------------- the calls as functions
\* the while loop of temperature_profile and of _solve_r_values from the
\* vector r with r_last = last: the vector it ends with, or ended = FALSE
\* when it has not ended within fuel passes
RECURSIVE SolveLoop(_, _, _, _, _, _, _)
SolveLoop(mats, c, a, emissivities, r, last, fuel) ==
    IF ~(Abs(SumSeq(r) - last) > Tolerance) THEN [ended |-> TRUE, r_values |-> r]
    ELSE IF fuel = 0 THEN [ended |-> FALSE, r_values |-> r]
    ELSE Bind(_temperature_profile_from_r_values(
                  r, c.outside_temperature, c.inside_temperature),
              LAMBDA t :
                  Bind(_layered_r_value(mats, t, r, emissivities, c.height, a, c.pressure),
                       LAMBDA refined :
                           SolveLoop(mats, c, a, emissivities, refined, SumSeq(r),
                                     fuel - 1)))

\* what a temperature_profile call with the arguments c returns: raised (the
\* seed failed), ended (the loop ended), the angle it computed with, and the
\* two vectors
ProfileOf(ct, mats, c, solved) ==
    [raised |-> FALSE, ended |-> solved.ended,
     angle |-> FlipAngle(c.angle, c.outside_temperature, c.inside_temperature),
     r_values |-> solved.r_values,
     temperatures |-> _temperature_profile_from_r_values(
                          solved.r_values, c.outside_temperature, c.inside_temperature)]

SolvedProfile(ct, mats, c, seed) ==
    IF ~seed.ok
    THEN [raised |-> TRUE, ended |-> TRUE, angle |-> 0, r_values |-> <<>>,
          temperatures |-> <<>>]
    ELSE Bind(SolveLoop(mats, c,
                        FlipAngle(c.angle, c.outside_temperature, c.inside_temperature),
                        seed.emiss, seed.r_vals, 0, MaxIter),
              LAMBDA solved : ProfileOf(ct, mats, c, solved))

\* temperature_profile(outside_temperature, inside_temperature, wind_speed,
\*                     height, angle, pressure) of a construction
temperature_profile(ct, mats, c) ==
    IF UsesSolver(ct, mats)
    THEN Bind(_layered_r_value_initial(mats, gap_count(mats), ProfileGuess(c),
                                       ProfileAvgGuess(c), c.wind_speed),
              LAMBDA seed : SolvedProfile(ct, mats, c, seed))
    ELSE Bind(SinglePassRValues(
                  ct, mats,
                  IF ct = "window" THEN <<mats[1].r>> ELSE LayerRValues(mats), c,
                  FlipAngle(c.angle, c.outside_temperature, c.inside_temperature)),
              LAMBDA single :
                  ProfileOf(ct, mats, c, [ended |-> TRUE, r_values |-> single.r_values]))

\* _solve_r_values(r_vals, emissivities) after _layered_r_value_initial(gap_count)
_solve_r_values(mats) ==
    Bind(_layered_r_value_initial(mats, gap_count(mats), RInt(15), Kelvin0, 67),
         LAMBDA seed :
             IF ~seed.ok THEN [raised |-> TRUE, ended |-> TRUE, r_values |-> <<>>]
             ELSE Bind(SolveLoop(mats, DefaultCall("_solve_r_values"), 90, seed.emiss,
                                 seed.r_vals, 0, MaxIter),
                       LAMBDA solved : [raised |-> FALSE, ended |-> solved.ended,
                                        r_values |-> solved.r_values]))

\* ================================================================== claims
\* the construction holds a gas, shade or blind layer
HasGapLayer == \E n \in 1..Len(materials) : materials[n].kind \in {"gas", "shade"}
\* a call of the running kind went through the solver loop and returned
SolverReturned == pc = "done" /\ iters > 0
\* outdoor air is warmer than indoor air in the running call
HeatFlowsInward == call.outside_temperature > call.inside_temperature

\* the temperature [K] the outdoor film of the running call is evaluated at:
\* the seed's guess in a solve, the outdoor air in a single pass
OutdoorFilmTemperature ==
    IF ctype = "window" /\ HasGapLayer
    THEN IF call.name = "temperature_profile"
         THEN RSub(ProfileAvgGuess(call), ProfileGuess(call))
         ELSE RSub(Kelvin0, RInt(15))
    ELSE RAdd(RInt(call.outside_temperature), Kelvin0)

\* C1: reading r_factor of a construction without a gap layer returns, with no
\* solver iteration, the layers' intrinsic resistance + 1/23 + 1/(3.6 +
\* 4.4 * inside_emissivity / 0.84); with a gap layer the read enters the
\* iterative solver (and then loops, fails in the seed, or returns the sum of
\* the solved vector).
C1_ZeroGapRFactorIsClosedForm ==
    (call.name = "r_factor" /\ pc # "idle") =>
        IF HasGapLayer
        THEN \/ pc \in {"solving", "error"}
             \/ (SolverReturned /\ r_vals # <<>>)
        ELSE /\ pc = "done"
             /\ iters = 0
             /\ r_vals = <<>>
             /\ result = <<SumSeq([n \in 1..Len(materials) |-> materials[n].r])
                             + ((1000 * 1000) \div 2300)
                             + ((1000 * 1000) \div
                                (360 + ((440 * inside_emissivity(ctype, materials))
                                        \div 84))), 1>>

\* an r_factor read of a two-layer opaque stack has returned
C1_Witness ==
    /\ call.name = "r_factor" /\ pc = "done"
    /\ ctype = "opaque" /\ Len(materials) = 2 /\ iters = 0

\* C2: a temperature vector built from a resistance vector R of length k has
\* k + 1 entries, starts at the outdoor temperature, and each next entry adds
\* (T_inside - T_outside) * R[i] / sum(R) to the entry before it.
C2_ProfileRecurrence ==
    temperatures # <<>> =>
        /\ Len(temperatures) = Len(t_from) + 1
        /\ temperatures[1] = <<call.outside_temperature, 1>>
        /\ \A i \in 1..Len(t_from) :
               RSub(temperatures[i + 1], temperatures[i]) =
                   Rat((call.inside_temperature - call.outside_temperature) * t_from[i],
                       SumSeq(t_from))

\* a solver iteration built a five-entry profile from four resistances
C2_Witness ==
    /\ pc = "solving" /\ iters >= 1
    /\ Len(t_from) = 4 /\ Len(temperatures) = 5

\* C3: every temperature vector an opaque or window temperature_profile call
\* builds starts at the outdoor air temperature and ends at the indoor one.
C3_ProfileEndsAtIndoor ==
    (temperatures # <<>> /\ SumSeq(t_from) # 0) =>
        /\ temperatures[1] = <<call.outside_temperature, 1>>
        /\ temperatures[Len(temperatures)] = <<call.inside_temperature, 1>>

\* a window temperature_profile call returned after iterating
C3_Witness ==
    /\ SolverReturned /\ call.name = "temperature_profile"
    /\ ctype = "window" /\ Len(temperatures) >= 4
    /\ call.outside_temperature # call.inside_temperature

\* C4: with outdoor colder than indoor and every resistance above 0, each
\* temperature vector (of the seed and of every iteration) increases strictly
\* from its outdoor entry to its indoor entry.
C4_ProfileIncreases ==
    (/\ temperatures # <<>>
     /\ call.outside_temperature < call.inside_temperature
     /\ \A i \in 1..Len(t_from) : t_from[i] > 0) =>
        \A i \in 1..(Len(temperatures) - 1) :
            RSub(temperatures[i + 1], temperatures[i])[1] > 0

\* the second iteration of a winter-side solve built its profile
C4_Witness ==
    /\ pc = "solving" /\ iters >= 2 /\ temperatures # <<>>
    /\ call.outside_temperature < call.inside_temperature

\* C5: the resistance vector of a call has len(materials) + 2 entries, the
\* outdoor film first, then one entry per layer in layer order, the indoor
\* film last; the temperature vector has len(materials) + 3 entries.
C5_VectorLayout ==
    /\ r_vals # <<>> =>
        /\ Len(r_vals) = Len(materials) + 2
        /\ \A n \in 1..Len(materials) :
               materials[n].kind \in {"glazing", "simple", "opaque"} =>
                   r_vals[n + 1] = materials[n].r
        /\ r_vals[1] = (1000 * 1000) \div
               out_h(outside_emissivity(ctype, materials), call.wind_speed,
                     OutdoorFilmTemperature)
        /\ r_vals[Len(r_vals)] =
               IF in_h_call = NoCall
               THEN (1000 * 1000) \div in_h_simple(inside_emissivity(ctype, materials))
               ELSE (1000 * 1000) \div in_h(inside_emissivity(ctype, materials),
                                            in_h_call.t_kelvin, in_h_call.delta_t,
                                            in_h_call.height, in_h_call.angle,
                                            in_h_call.pressure)
    /\ temperatures # <<>> => Len(temperatures) = Len(materials) + 3

\* a solver iteration on a three-layer window produced its vectors
C5_Witness ==
    /\ pc = "solving" /\ iters >= 1
    /\ Len(materials) = 3 /\ Len(r_vals) = 5 /\ Len(temperatures) = 6

\* C6: on a window with a gap layer, r_value is the solved vector's sum less
\* its first and last entries, r_factor the sum of all its entries, so that
\* r_factor - r_value is the two films; u_value and u_factor are 1 over them.
C6_SolvedValues ==
    (SolverReturned /\ call.name \in Properties) =>
        LET films == r_vals[1] + r_vals[Len(r_vals)]
            all == SumSeq(r_vals)
        IN  /\ call.name = "r_value" => result = <<all - films, 1>>
            /\ call.name = "r_factor" => result = <<all, 1>>
            /\ call.name = "u_value" =>
                   result[1] * (all - films) = 10 * 1000 * result[2]
            /\ call.name = "u_factor" => result[1] * all = 10 * 1000 * result[2]
            /\ (call.name = "r_factor" /\ prev.name = "r_value") =>
                   result[1] - prev.value[1] = films

\* r_factor was read right after r_value on a window that needed the solver
C6_Witness ==
    /\ SolverReturned /\ call.name = "r_factor" /\ prev.name = "r_value"
    /\ ctype = "window" /\ HasGapLayer

\* gas layers, + 1 for a shade that is the first or the last layer, + 2 for a
\* shade between glazing layers
CountedGaps(mats) ==
    Cardinality({n \in 1..Len(mats) : mats[n].kind = "gas"})
    + Cardinality({n \in 1..Len(mats) :
                       mats[n].kind = "shade" /\ n \in {1, Len(mats)}})
    + 2 * Cardinality({n \in 1..Len(mats) :
                           mats[n].kind = "shade" /\ n \notin {1, Len(mats)}})

\* C7: for every layer sequence the window setter accepted, gap_count is the
\* number of gas layers, plus 1 for an exterior or interior shade, plus 2 for
\* a shade between glazing layers.
C7_GapCountFormula ==
    (ctype = "window" /\ set_result = "ok") => gap_count(materials) = CountedGaps(materials)

\* C8: temperature_profile computes with abs(180 - angle) when outdoor is
\* warmer than indoor and angle # 90, with the angle as passed otherwise, and
\* every in_h call of the call, in each iteration, gets that same angle.
C8_AngleFlippedOnce ==
    (call.name = "temperature_profile" /\ pc # "idle") =>
        /\ angle = IF HeatFlowsInward /\ call.angle # 90
                   THEN (IF call.angle > 180 THEN call.angle - 180 ELSE 180 - call.angle)
                   ELSE call.angle
        /\ in_h_call # NoCall => in_h_call.angle = angle

\* the second iteration of a summer-side solve on a 45 degree window
C8_Witness ==
    /\ call.name = "temperature_profile" /\ pc = "solving" /\ iters >= 2
    /\ HeatFlowsInward /\ call.angle = 45 /\ angle = 135 /\ in_h_call.angle = 135

\* C9: every started solve ends: the loop is left, with a result or with a
\* report of non-convergence.
C9_SolveEnds == (pc = "solving") ~> (pc # "solving")

\* C10 as stated: refining a returned vector once more moves its sum by less
\* than 0.001.
C10_ReturnedIsFixedPoint ==
    (SolverReturned /\ ctype = "window" /\ HasGapLayer) =>
        \A t \in {_temperature_profile_from_r_values(
                      r_vals, call.outside_temperature, call.inside_temperature)} :
            Abs(SumSeq(_layered_r_value(materials, t, r_vals, emiss, call.height, angle,
                                        call.pressure))
                - SumSeq(r_vals)) < 10

\* C10: the vector a solve returns is the refinement of a vector whose sum is
\* within 0.001 of its own: the last step taken moved the sum by at most 0.001.
C10_LastStepWithinTolerance ==
    (SolverReturned /\ ctype = "window" /\ HasGapLayer) =>
        /\ Abs(SumSeq(r_vals) - r_last) <= 10
        /\ call.name \in Properties =>
               /\ r_last = SumSeq(t_from)
               /\ r_vals = _layered_r_value(materials, temperatures, t_from, emiss,
                                            call.height, angle, call.pressure)

\* a property read returned after more than one refinement
C10_Witness ==
    /\ SolverReturned /\ iters >= 2 /\ call.name = "u_factor"
    /\ Abs(SumSeq(r_vals) - r_last) > 0

\* the running call with the angle mirrored and the two temperatures swapped
MirroredCall ==
    [call EXCEPT !.angle = Abs(180 - call.angle),
                 !.outside_temperature = call.inside_temperature,
                 !.inside_temperature = call.outside_temperature]
\* a temperature_profile call has returned its two vectors
ProfileReturned == pc = "done" /\ call.name = "temperature_profile"

\* C11 as stated: with outdoor warmer than indoor, temperature_profile at
\* angle theta returns the temperatures and resistances that the call at
\* abs(180 - theta) with the two temperatures swapped returns.
C11_MirroredCallReturnsTheSame ==
    (ProfileReturned /\ HeatFlowsInward) =>
        \A m \in {temperature_profile(ctype, materials, MirroredCall)} :
            m.ended => (m.temperatures = temperatures /\ m.r_values = r_vals)

\* C11: with outdoor warmer than indoor, temperature_profile at angle theta
\* computes with abs(180 - theta), the angle the call at abs(180 - theta) with
\* the temperatures swapped computes with; the two profiles run between the
\* same two temperatures in opposite order, so they are not equal.
C11_MirroredCallSharesTheAngle ==
    (ProfileReturned /\ HeatFlowsInward) =>
        \A m \in {temperature_profile(ctype, materials, MirroredCall)} :
            m.ended =>
                /\ m.angle = angle
                /\ m.angle = Abs(180 - call.angle)
                /\ m.temperatures[1] = temperatures[Len(temperatures)]
                /\ m.temperatures[Len(m.temperatures)] = temperatures[1]
                /\ m.temperatures # temperatures

\* a summer-side profile of a window at 45 degrees returned after iterating,
\* and the mirrored call ends too
C11_Witness ==
    /\ ProfileReturned /\ HeatFlowsInward /\ SolverReturned
    /\ call.angle = 45
    /\ temperature_profile(ctype, materials, MirroredCall).ended

\* C12: in_h picks its Nusselt correlation from the angle alone: below 15 it
\* is 0.13 Ra^(1/3); from 15 to 90 it is 0.56 (Ra sin)^(1/4) while Ra < Ra_c
\* and 0.56 (Ra_c sin)^(1/4) + 0.13 (Ra^(1/3) - Ra_c^(1/3)) otherwise; above
\* 90 up to 179 it is 0.56 (Ra sin)^(1/4); above 179 it is 0.58 Ra^(1/5);
\* every angle of [0, 180] is in exactly one of the four.
C12_NusseltByAngle ==
    film.state = "returned" =>
        LET a == film.angle
            ra == film.rayleigh
        IN  /\ a < 15 =>
                /\ film.branch = "up"
                /\ film.nusselt = 1300 * IRoot(ra, 3)
            /\ (15 <= a /\ a <= 90) =>
                /\ film.branch = "critical"
                /\ ra < RayleighC(a) =>
                       film.nusselt = (56 * Root4RaSin(ra, SinMilli(a))) \div 100
                /\ ra >= RayleighC(a) =>
                       film.nusselt = ((56 * Root4RaSin(RayleighC(a), SinMilli(a))) \div 100)
                                      + 1300 * (IRoot(ra, 3) - IRoot(RayleighC(a), 3))
            /\ (90 < a /\ a <= 179) =>
                /\ film.branch = "inclined"
                /\ film.nusselt = (56 * Root4RaSin(ra, SinMilli(a))) \div 100
            /\ a > 179 =>
                /\ film.branch = "down"
                /\ film.nusselt = 2309 * IRoot(ra, 5)
            /\ Cardinality({b \in {"up", "critical", "inclined", "down"} :
                               film.branch = b}) = 1

\* in_h returned at 15 degrees, the first angle of the Ra_c correlation, with
\* the Rayleigh number above Ra_c
C12_Witness ==
    /\ film.state = "returned" /\ film.angle = 15
    /\ film.rayleigh >= RayleighC(15) /\ film.nusselt > 0

\* C13: for every angle of [0, 180] in_h raises no error (the branch that
\* divides by sin(angle) is never taken with sin(angle) = 0), and with
\* delta_t = 0 the Nusselt number is 0 and the coefficient returned is the
\* radiative term alone.
C13_InHTotal ==
    film.state # "none" =>
        /\ film.state = "returned" /\ film.raised = "none"
        /\ film.branch = "critical" => SinMilli(film.angle) # 0
        /\ film.delta_t = RInt(0) =>
               /\ film.rayleigh = 0 /\ film.nusselt = 0
               /\ film.h = RadH(film.t_kelvin, inside_emissivity(ctype, materials))

\* in_h returned for a horizontal surface (sin = 0) with delta_t = 0
C13_Witness ==
    /\ film.state = "returned" /\ film.angle \in {0, 180}
    /\ film.delta_t = RInt(0) /\ film.h > 0

\* the setter's own code ran (the construction was not locked) on a
\* construction of class ct
SetterRan(ct) == ctype = ct /\ set_result # "AttributeError"
\* the assignment ended with one of the setter's assertions failing
RaisedAssertionError == set_result \notin {"ok", "AttributeError"}
IsSolid(mat) == IsGlazingBase(mat) \/ IsShade(mat)
\* no gas layer first or last, and a glazing or shade layer on each side of
\* every gas layer
GasLayersEnclosed(mats) ==
    \A n \in 1..Len(mats) :
        IsGas(mats[n]) =>
            /\ n > 1 /\ n < Len(mats)
            /\ IsSolid(mats[n - 1]) /\ IsSolid(mats[n + 1])

\* C14: a layer sequence the window setter accepts has no gas layer first or
\* last and has a glazing or shade layer directly before and after every gas
\* layer; a sequence that breaks this is rejected with an AssertionError and
\* the stored sequence keeps the rule.
C14_GasLayersEnclosed ==
    SetterRan("window") =>
        /\ set_result = "ok" => (materials = set_mats /\ GasLayersEnclosed(set_mats))
        /\ ~GasLayersEnclosed(set_mats) => RaisedAssertionError
        /\ GasLayersEnclosed(materials)

\* [glazing, gas] was assigned and rejected for its gas layer on the inside
C14_Witness ==
    /\ SetterRan("window") /\ set_mats = <<Glass, AirGap>>
    /\ set_result = "cannot have gas gap layers on the inside layer"
    /\ materials # set_mats

ShadeCount(mats) == Cardinality({n \in 1..Len(mats) : IsShade(mats[n])})
NoAdjacentGlazing(mats) ==
    \A n \in 1..(Len(mats) - 1) : ~(IsGlazingBase(mats[n]) /\ IsGlazingBase(mats[n + 1]))

\* C15: a layer sequence the window setter accepts has at most one shade
\* layer and no two glazing layers next to each other; a sequence with two
\* shades or two adjacent glazing layers is rejected with an AssertionError.
C15_OneShadeNoAdjacentGlazing ==
    SetterRan("window") =>
        /\ set_result = "ok" => (ShadeCount(set_mats) <= 1 /\ NoAdjacentGlazing(set_mats))
        /\ (ShadeCount(set_mats) >= 2 \/ ~NoAdjacentGlazing(set_mats))
               => RaisedAssertionError
        /\ ShadeCount(materials) <= 1 /\ NoAdjacentGlazing(materials)

\* [shade, glazing, shade] was assigned and rejected for its second shade
C15_Witness ==
    /\ SetterRan("window") /\ set_mats = <<Shade, Glass, Shade>>
    /\ set_result = "Constructions can only possess one shade"

\* the layer structure the setter of a class asks for, whatever the length
StructurallyValid(ct, mats) ==
    IF ct = "opaque" THEN \A n \in 1..Len(mats) : IsOpaqueMaterial(mats[n])
    ELSE /\ \A n \in 1..Len(mats) : IsWindowMaterial(mats[n])
         /\ (\E n \in 1..Len(mats) : mats[n].kind = "simple") => Len(mats) = 1
         /\ \A n \in 1..Len(mats) :
                /\ IsGas(mats[n]) =>
                       /\ n > 1 /\ n < Len(mats)
                       /\ IsGlazingBase(mats[n - 1]) /\ IsGlazingBase(mats[n + 1])
                /\ (IsShade(mats[n]) /\ n > 1) => IsGlazingBase(mats[n - 1])
         /\ ShadeCount(mats) <= 1
         /\ NoAdjacentGlazing(mats)

\* C16 as stated: both setters reject the empty sequence and every sequence
\* of more than 10 layers, and accept every structurally valid sequence of 1
\* to 10 layers.
C16_OneToTenLayers ==
    (SetterRan("window") \/ SetterRan("opaque")) =>
        /\ (Len(set_mats) = 0 \/ Len(set_mats) > 10) => RaisedAssertionError
        /\ (StructurallyValid(ctype, set_mats) /\ Len(set_mats) \in 1..10)
               => set_result = "ok"

\* C16: the opaque setter accepts exactly the sequences of opaque materials
\* of 1 to 10 layers, the window setter exactly the structurally valid
\* sequences of 1 to 8 layers; the empty sequence and longer ones are
\* rejected with an AssertionError.
C16_LayerCaps ==
    (SetterRan("window") \/ SetterRan("opaque")) =>
        LET cap == IF ctype = "window" THEN 8 ELSE 10
        IN  /\ (Len(set_mats) = 0 \/ Len(set_mats) > cap) => RaisedAssertionError
            /\ (StructurallyValid(ctype, set_mats) /\ Len(set_mats) \in 1..cap)
                   => set_result = "ok"
            /\ set_result = "ok" =>
                   (StructurallyValid(ctype, set_mats) /\ Len(set_mats) \in 1..cap)
            /\ Len(materials) \in 1..cap

\* a structurally valid window stack of 9 layers was assigned and rejected
C16_Witness ==
    /\ SetterRan("window") /\ Len(set_mats) = 9
    /\ StructurallyValid("window", set_mats)
    /\ set_result = "cannot have more than 8 materials"

\* what the returned call returns when computed from the layer sequence and
\* the arguments alone
ReturnedIsFunctionOfArguments ==
    IF call.name = "temperature_profile"
    THEN \A p \in {temperature_profile(ctype, materials, call)} :
             /\ p.ended /\ ~p.raised
             /\ r_vals = p.r_values
             /\ temperatures = p.temperatures
    ELSE /\ result = IF UsesSolver(ctype, materials)
                     THEN FromSolve(call.name, _solve_r_values(materials).r_values)
                     ELSE ClosedForm(call.name, ctype, materials)
         /\ prev.name = call.name => prev.value = result

\* C17: r_value, r_factor, u_value, u_factor and temperature_profile leave the
\* name, the layer sequence, the lock state and the materials' lock state as
\* they were, and what a call returns is a function of the layer sequence and
\* the arguments alone, whatever calls were made before it.
C17_CallsArePure ==
    /\ [](pc = "done" => ReturnedIsFunctionOfArguments)
    /\ [][UNCHANGED <<_name, ctype, materials, has_shade, locked, locked_mats>>]_vars

\* r_factor was read twice in a row on a locked window with a gap, after
\* the solver ran, and returned the same value
C17_Witness ==
    /\ SolverReturned /\ call.name = "r_factor" /\ locked
    /\ prev = [name |-> "r_factor", value |-> result]

IsLocked(c) == IF c = "self" THEN locked ELSE second_locked
AllLayersLocked(c) == \A n \in 1..Len(LayersOf(c)) : LayersOf(c)[n] \in locked_mats
NoLayerLocked(c) == \A n \in 1..Len(LayersOf(c)) : LayersOf(c)[n] \notin locked_mats
\* the operation before assigned a window construction to the aperture and
\* this one sets an attribute of that construction or of one of its materials
SetAttributeAfterAssignment ==
    /\ outcome.op = "assign" /\ outcome.raised = "none" /\ outcome.on # "none"
    /\ outcome'.op = "setattr"
    /\ \/ outcome'.on = "self" /\ outcome.on = "self"
       \/ /\ outcome'.on = "material"
          /\ \E n \in 1..Len(LayersOf(outcome.on)) :
                 outcome'.mats = {LayersOf(outcome.on)[n]}

\* C18: lock() leaves the construction and each of its materials locked,
\* unlock() leaves the construction and each of its materials unlocked,
\* assigning a window construction to the aperture leaves it and each of its
\* materials locked, and setting an attribute of the construction or of one
\* of its materials right after the assignment raises AttributeError.
C18_LockReachesMaterials ==
    /\ [](/\ outcome.op = "lock" => (IsLocked(outcome.on) /\ AllLayersLocked(outcome.on))
          /\ outcome.op = "unlock" =>
                 (~IsLocked(outcome.on) /\ NoLayerLocked(outcome.on))
          /\ (outcome.op = "assign" /\ outcome.raised = "none" /\ outcome.on # "none")
                 => /\ ap_construction = outcome.on
                    /\ IsLocked(outcome.on) /\ AllLayersLocked(outcome.on))
    /\ [][SetAttributeAfterAssignment => outcome'.raised = "AttributeError"]_vars

\* the double pane is on the aperture and setting an attribute of its gas
\* layer, which no other construction holds, raised AttributeError
C18_Witness ==
    /\ ap_construction = "self" /\ assigned = "self" /\ Len(materials) = 3
    /\ outcome = [op |-> "setattr", on |-> "material", raised |-> "AttributeError",
                  mats |-> {AirGap}]

\* C19: the getter returns the construction set by the user if there is one;
\* otherwise, on a face that is in a room, what the room's construction set
\* gives for the boundary condition, aperture type and face type; otherwise,
\* on a face, what the generic set gives for the face type; otherwise what
\* the generic set gives for face type 'Wall'.
C19_GetterPriority ==
    outcome.op = "get" =>
        /\ ap_construction # "none" =>
               (got.source = "user" /\ got.value = ap_construction)
        /\ (ap_construction = "none" /\ host.has_parent /\ host.parent_has_parent) =>
               got = [source |-> "room_set", value |-> "from_set",
                      boundary_condition |-> host.boundary_condition,
                      type |-> host.type, face_type |-> host.parent_type]
        /\ (ap_construction = "none" /\ host.has_parent /\ ~host.parent_has_parent) =>
               got = [source |-> "generic_set", value |-> "from_set",
                      boundary_condition |-> host.boundary_condition,
                      type |-> host.type, face_type |-> host.parent_type]
        /\ (ap_construction = "none" /\ ~host.has_parent) =>
               got = [source |-> "generic_set", value |-> "from_set",
                      boundary_condition |-> host.boundary_condition,
                      type |-> host.type, face_type |-> "Wall"]

\* the getter was read on an aperture in a room that has a construction of
\* its own, and returned that construction
C19_Witness ==
    /\ outcome.op = "get" /\ ap_construction = "second"
    /\ host.has_parent /\ host.parent_has_parent
    /\ got.source = "user" /\ got.value = "second"

\* C20: is_construction_set_by_user is true exactly when the last assignment
\* that succeeded gave a window construction, and then the getter returns
\* that construction; it is false on a new aperture and after assigning
\* None; assigning anything else raises AssertionError and leaves the stored
\* construction as it was.
C20_SetByUser ==
    /\ [](/\ is_construction_set_by_user <=> assigned # "none"
          /\ assigned # "none" =>
                 /\ IsWindowConstruction(assigned)
                 /\ construction(ap_construction, host).value = assigned
          /\ (outcome.op = "get" /\ is_construction_set_by_user) => got.value = assigned
          /\ (outcome.op = "assign" /\ outcome.on = "none") => ~is_construction_set_by_user
          /\ (outcome.op = "assign" /\ outcome.on # "none"
                 /\ ~IsWindowConstruction(outcome.on)) => outcome.raised = "AssertionError")
    /\ [][(outcome'.op = "assign" /\ outcome'.raised = "AssertionError")
              => UNCHANGED <<ap_construction, assigned>>]_vars

\* a string was assigned to an aperture holding the second construction:
\* AssertionError, and the construction is still set by the user
C20_Witness ==
    /\ outcome = [op |-> "assign", on |-> "text", raised |-> "AssertionError", mats |-> {}]
    /\ ap_construction = "second" /\ is_construction_set_by_user

\* the original and the duplicate read through their getters
OriginalReturns == Returned(construction(ap_construction, host))
DuplicateReturns == Returned(construction(dup.construction, DuplicateHost))

\* C21 as stated: the properties duplicate(new_host) returns have the host
\* new_host (the original's when new_host is None) and a construction equal
\* to the original's at the time of the copy.
C21_DuplicateReturnsTheSame ==
    outcome.op = "duplicate" =>
        /\ dup.exists
        /\ dup.host_is = "original" => DuplicateHost = host
        /\ DuplicateReturns = OriginalReturns

\* C21: the properties duplicate(new_host) returns have the host new_host
\* (the original's when new_host is None) and store the construction the
\* original stores, so both are set by the user or neither is, and both
\* getters return the same object when a construction is set by the user or
\* the two hosts are placed alike; an assignment on one of the two leaves the
\* construction stored by the other as it was.
C21_DuplicateSharesStored ==
    /\ [](outcome.op = "duplicate" =>
              /\ dup.exists
              /\ dup.host_is = "original" => DuplicateHost = host
              /\ dup.construction = ap_construction
              /\ (dup.construction # "none") <=> is_construction_set_by_user
              /\ (is_construction_set_by_user \/ DuplicateHost = host)
                     => DuplicateReturns = OriginalReturns)
    /\ [][/\ outcome'.op = "assign_duplicate" => UNCHANGED <<ap_construction, assigned>>
          /\ outcome'.op = "assign" => dup'.construction = dup.construction]_vars

\* the duplicate of an aperture with a construction of its own was given
\* None and the original still holds its construction
C21_Witness ==
    /\ outcome = [op |-> "assign_duplicate", on |-> "none", raised |-> "none",
                  mats |-> {}]
    /\ dup.exists /\ dup.construction = "none" /\ dup.host_is = "new_host"
    /\ ap_construction = "second" /\ is_construction_set_by_user

\* C22: after a successful assignment of window materials has_shade is true
\* exactly when a layer is a shade, and shade_location is 'Exterior' when
\* the first layer is a shade, 'Interior' when the last and not the first
\* is, 'Between' when a shade lies strictly inside, and None exactly when
\* has_shade is false.
C22_ShadeLocation ==
    (SetterRan("window") /\ set_result = "ok") =>
        LET where == shade_location(materials, has_shade)
            last == Len(materials)
        IN  /\ has_shade <=> (\E n \in 1..last : materials[n].kind = "shade")
            /\ materials[1].kind = "shade" => where = "Exterior"
            /\ (materials[last].kind = "shade" /\ materials[1].kind # "shade")
                   => where = "Interior"
            /\ (\E n \in 2..(last - 1) : materials[n].kind = "shade")
                   => where = "Between"
            /\ where = "None" <=> ~has_shade

\* a shade between two glazing layers was assigned: 'Between'
C22_Witness ==
    /\ SetterRan("window") /\ set_result = "ok"
    /\ set_mats = <<Glass, Shade, Glass>> /\ materials = set_mats
    /\ has_shade /\ shade_location(materials, has_shade) = "Between"

\* C23: the solver loop starts with the previous sum 0, takes a refinement
\* step only while the sum after the last refinement differs from the sum
\* before it by more than 0.001, returns at the first refinement where the
\* difference is at most 0.001, and returns the vector of that refinement;
\* a seed with a sum above 0.001 is refined at least once.
C23_LoopRunsToTolerance ==
    /\ [](/\ (pc = "solving" /\ iters = 0) => (r_last = 0 /\ r_next = SumSeq(r_vals))
          /\ (pc = "solving" /\ iters > 0) =>
                 (r_last = SumSeq(t_from) /\ r_next = SumSeq(r_vals))
          /\ (pc = "done" /\ UsesSolver(ctype, materials)) => iters >= 1)
    /\ [][/\ (pc = "solving" /\ pc' = "solving") =>
                 /\ Abs(r_next - r_last) > 10
                 /\ r_last' = r_next
                 /\ r_vals' = _layered_r_value(materials, temperatures', r_vals, emiss,
                                               call.height, angle, call.pressure)
          /\ (pc = "solving" /\ pc' = "done") =>
                 /\ Abs(r_next - r_last) <= 10
                 /\ r_vals' = r_vals
                 /\ call.name \in Properties => result' = FromSolve(call.name, r_vals)]_vars

\* a solve returned after exactly two refinements: the first moved the sum
\* by more than 0.001, the second by at most 0.001
C23_Witness ==
    /\ pc = "done" /\ iters = 2 /\ UsesSolver(ctype, materials)
    /\ Abs(r_next - r_last) <= 10 /\ r_next = SumSeq(r_vals)

\* the indoor film entry is the one of the detailed in_h at the difference
\* and the mean of the last two temperatures
IndoorFilmRecomputed ==
    \A c \in {LayeredInH(temperatures, call.height, angle, call.pressure)} :
        r_vals[Len(r_vals)] =
            Recip(in_h(inside_emissivity(ctype, materials), c.t_kelvin, c.delta_t,
                       c.height, c.angle, c.pressure))
\* the outdoor film entry is the one of out_h at the exterior surface
\* temperature of the current temperature vector
OutdoorFilmRecomputed ==
    r_vals[1] = Recip(out_h(outside_emissivity(ctype, materials), call.wind_speed,
                            RAdd(temperatures[2], Kelvin0)))

\* C24: after every solver iteration the outdoor film resistance is the one
\* of out_h at the exterior surface temperature of the current temperature
\* vector, and the indoor film resistance is the one of the detailed in_h at
\* the difference and mean of its last two entries.
C24_FilmsRecomputed ==
    (pc = "solving" /\ iters > 0) => (OutdoorFilmRecomputed /\ IndoorFilmRecomputed)

\* the resistance _layered_r_value gives the gas or shade layer n (1-based) at
\* the temperatures on its two faces, with the recorded emissivities
RecomputedGap(n) ==
    LET mat == materials[n]
        delta_t == RAbs(RSub(temperatures[n + 1], temperatures[n + 2]))
        avg_temp == RAdd(RHalf(RAdd(temperatures[n + 1], temperatures[n + 2])), Kelvin0)
    IN  IF IsGas(mat)
        THEN Recip(u_value_at_angle(mat, delta_t, emiss[n][1], emiss[n][2],
                                    call.height, angle, avg_temp, call.pressure))
        ELSE IF n = 1 THEN r_value_exterior(mat, delta_t, emiss[n][1], angle, avg_temp)
        ELSE IF n = Len(materials)
        THEN r_value_interior(mat, delta_t, emiss[n][1], angle, avg_temp)
        ELSE r_value_between(mat, delta_t, emiss[n][1], emiss[n][2], angle, avg_temp)
GapLayers == {n \in 1..Len(materials) : IsGas(materials[n]) \/ IsShade(materials[n])}

\* C25: after every solver iteration the temperature vector is the one built
\* from the resistance vector the iteration started with, the resistance of
\* every gas or shade layer is the one computed at the absolute difference and
\* the mean (plus 273.15) of the temperatures on its two faces, and the
\* emissivities used are the ones recorded at the seed, which no iteration
\* changes.
C25_GapsRecomputed ==
    /\ [](pc = "solving" /\ iters > 0 =>
            /\ temperatures = _temperature_profile_from_r_values(
                   t_from, call.outside_temperature, call.inside_temperature)
            /\ Len(emiss) = Len(materials)
            /\ \A n \in GapLayers : r_vals[n + 1] = RecomputedGap(n))
    /\ [][pc = "solving" /\ pc' = "solving" => emiss' = emiss /\ t_from' = r_vals]_vars
C25_Witness ==
    /\ pc = "solving" /\ iters = 2
    /\ \E n \in GapLayers :
           /\ IsGas(materials[n])
           /\ r_vals[n + 1] # t_from[n + 1]
           /\ r_vals[n + 1] = RecomputedGap(n)

GlazingLayers == {n \in 1..Len(materials) : IsGlazingBase(materials[n])}
GlazingIntrinsic == \A n \in GlazingLayers : r_vals[n + 1] = materials[n].r

\* C26: in the resistance vector of a window solve, at the seed, after every
\* iteration and in the vector the call returns, the entry of every glazing
\* layer is that layer's intrinsic r_value; the value a property returns is
\* computed from that vector.
C26_GlazingUnchanged ==
    /\ [](( /\ ctype = "window"
             /\ pc \in {"solving", "done"}
             /\ (gap_count(materials) # 0 \/ call.name = "temperature_profile") )
           => (Len(r_vals) = Len(materials) + 2 /\ GlazingIntrinsic))
    /\ [][pc = "solving" /\ pc' = "done" =>
            /\ r_vals' = r_vals
            /\ call.name # "temperature_profile" => result' = FromSolve(call.name, r_vals)
         ]_vars
C26_Witness ==
    /\ ctype = "window" /\ pc = "done" /\ iters >= 2
    /\ call.name = "r_factor"
    /\ Cardinality(GlazingLayers) = 2
    /\ GlazingIntrinsic
    /\ r_vals # t_from

\* the solver has been entered and no iteration has run: r_vals is the seed
SeedState == pc = "solving" /\ iters = 0
\* max(1, |T_in - T_out| / 2) and (T_in + T_out) / 2 + 273.15 of the call
BoundaryDrop ==
    LET guess == Rat(Abs(call.inside_temperature - call.outside_temperature), 2)
    IN  IF RLess(guess, RInt(1)) THEN RInt(1) ELSE guess
BoundaryMean ==
    RAdd(Rat(call.inside_temperature + call.outside_temperature, 2), Kelvin0)
\* the guesses the seed is called with: those of the boundary conditions in
\* temperature_profile, the defaults 15 and 273.15 behind the properties
SeedGuess == IF call.name = "temperature_profile" THEN BoundaryDrop ELSE RInt(15)
SeedMean == IF call.name = "temperature_profile" THEN BoundaryMean ELSE Kelvin0
SeedDrop == Rat(SeedGuess[1], SeedGuess[2] * gap_count(materials))
\* the seed resistance of the gas or shade layer n at a drop and a mean
SeedEntry(n, drop, mean) ==
    LET mat == materials[n]
        after == materials[IF n < Len(materials) THEN n + 1 ELSE 1]
        before == materials[IF n > 1 THEN n - 1 ELSE Len(materials)]
        e_back == IF HasEmissivityBack(before) THEN before.eb ELSE before.e
    IN  IF IsGas(mat) THEN Recip(u_value(mat, drop, e_back, after.e, mean))
        ELSE IF n = 1 THEN r_value_exterior(mat, drop, after.e, 90, mean)
        ELSE IF n = Len(materials) THEN r_value_interior(mat, drop, before.eb, 90, mean)
        ELSE r_value_between(mat, drop, after.e, before.eb, 90, mean)
SeedIndoorFilm ==
    r_vals[Len(r_vals)] = Recip(in_h_simple(inside_emissivity(ctype, materials)))

\* C27: at the seed of every solve, each gas and shade entry is the layer's
\* seed formula at the drop max(1, |T_in - T_out| / 2) and the mean
\* (T_in + T_out) / 2 + 273.15 of the call's boundary conditions, and the
\* indoor film is 1 / in_h_simple().
C27_SeedAtBoundaryGuess ==
    SeedState =>
        /\ \A n \in GapLayers : r_vals[n + 1] = SeedEntry(n, BoundaryDrop, BoundaryMean)
        /\ SeedIndoorFilm

\* C27: at the seed of every solve, each gas and shade entry is the layer's
\* seed formula at the guessed drop divided by gap_count and at the guessed
\* mean, where the guesses are max(1, |T_in - T_out| / 2) and
\* (T_in + T_out) / 2 + 273.15 in temperature_profile and 15 and 273.15 behind
\* the properties; the outdoor film is 1 / out_h at the guessed mean less the
\* guessed drop and the indoor film is 1 / in_h_simple().
C27_SeedAtPerGapGuess ==
    SeedState =>
        /\ Len(r_vals) = Len(materials) + 2
        /\ r_vals[1] = Recip(out_h(outside_emissivity(ctype, materials),
                                    call.wind_speed, RSub(SeedMean, SeedGuess)))
        /\ \A n \in GapLayers : r_vals[n + 1] = SeedEntry(n, SeedDrop, SeedMean)
        /\ SeedIndoorFilm
C27_Witness ==
    /\ SeedState
    /\ call.name = "temperature_profile"
    /\ gap_count(materials) = 2
    /\ \E n \in GapLayers :
           /\ r_vals[n + 1] = SeedEntry(n, SeedDrop, SeedMean)
           /\ r_vals[n + 1] # SeedEntry(n, BoundaryDrop, BoundaryMean)

\* C28: no call of r_factor, r_value, u_factor, u_value or temperature_profile
\* on a window construction whose layers the setter accepts ends with an
\* IndexError or AttributeError of the seed or of the refinement step.
C28_AcceptedWindowsAreSolvable ==
    (ctype = "window" /\ WindowAccepts(materials)) => pc # "error"

SingleGlazing(mats) == Len(mats) = 1 /\ mats[1].kind \in {"glazing", "simple"}

\* C29: the layers of a window construction, which the setter accepted, have
\* gap_count 0 exactly when they are one glazing or simple glazing system
\* layer: a zero gap_count means materials[0] is the only layer, and a
\* construction of any other shape has a gap_count of at least 1 to divide by.
C29_ZeroGapsIsSingleGlazing ==
    ctype = "window" =>
        /\ WindowAccepts(materials)
        /\ gap_count(materials) = 0 <=> SingleGlazing(materials)
        /\ gap_count(materials) >= 0
C29_Witness ==
    /\ SetterRan("window") /\ set_result = "ok"
    /\ set_mats = <<SimpleGlazSys>> /\ materials = set_mats
    /\ gap_count(materials) = 0

\* C30: whatever lock(), unlock() and assignments to the aperture have run on
\* the construction and on the second window construction, which share a
\* glazing object, every material of a locked construction is locked.
C30_LockedMeansMaterialsLocked ==
    \A c \in {"self", "second"} : IsLocked(c) => AllLayersLocked(c)

====
